---- MODULE Spec2Model ----
(***************************************************************************)
(* Native-resource lifecycle layer of MXU (src-tauri): the controller      *)
(* pool, the instance runtime commands, the streaming download and the    *)
(* filename sanitizer, each as a state machine over its own variables.     *)
(***************************************************************************)
EXTENDS Integers, Sequences, FiniteSets, TLC

\* ------------------------------------------------------------------ bounds
\* largest reference count the pool is driven to
MaxRef == 3
\* number of distinct controller addresses handed to the pool
NumPtrs == 3
\* number of native handles (and child processes) that exist at a time
MaxHandles == 5
\* number of live handles nothing refers to that are tracked
MaxLeaks == 1
\* number of download sessions started
MaxSessions == 3
\* largest body a session is served, in units of 128 KiB
MaxBytes == 3
\* longest candidate filename enumerated over the sanitizer's alphabet
MaxNameLen == 4
\* longest string field of a configuration that is fingerprinted
MaxFieldLen == 2

\* ------------------------------------------------------------- vocabulary
\* Option::None / null pointer
None == 0
Keys == {"k1", "k2"}
InstanceIds == {"i1", "i2"}
Ptrs == 1..NumPtrs
\* generations: handles of one kind created for one instance id that coexist
Gens == {1, 2}
\* the task ids the engine hands out
TaskIds == {1, 2}
\* how many entries a start_tasks call carries
EntryCounts == {1, 2}

Range(s) == {s[n] : n \in DOMAIN s}

VARIABLES
    \* ControllerPool (commands/types.rs)
    controllers,    \* pool_key -> PooledController (DOMAIN = keys present)
    ptr_to_key,     \* controller address -> pool_key
    live,           \* history: addresses inserted and not yet handed out for destroy
    last,           \* history: the last pool call, its refcount before, its result
    destroyBalance, \* history: zero-crossings minus handles returned for destroy
    paired          \* history: every get was by a non-owner, every release by an owner

poolVars == <<controllers, ptr_to_key, live, last, destroyBalance, paired>>

VARIABLES
    \* MaaState and the engine (maa_commands.rs)
    lib_loaded,     \* MAA_LIBRARY holds a loaded library
    instances,      \* instance id -> InstanceRuntime (DOMAIN = ids present)
    handles,        \* engine side: handle -> kind, destroy calls received, config
    st,             \* the maa_start_tasks call in flight, its locals and position
    lastCmd         \* history: the last command, its result and its native calls

instVars == <<lib_loaded, instances, handles, st, lastCmd>>

VARIABLES
    \* download_file / cancel_download (commands/download.rs) and the file system
    epoch,          \* CURRENT_DOWNLOAD_SESSION
    cancelled,      \* DOWNLOAD_CANCELLED
    dir,            \* path -> inode: "dest" the save path, "temp" <save path>.downloading
    data,           \* inode -> content
    old_dir,        \* contents of the files moved to cache/old
    dl,             \* download_file calls: position, session id, file, buffer, result
    cn,             \* the cancel_download call: position
    cancelAfter     \* history: a cancel set the flag after the session had reset it

downVars == <<epoch, cancelled, dir, data, old_dir, dl, cn, cancelAfter>>

VARIABLES
    \* sanitize_filename (commands/download.rs)
    sanPc,          \* "idle" before a call, "done" after it
    filename,       \* the candidate passed in
    sanitized       \* the Option<String> returned

sanVars == <<sanPc, filename, sanitized>>

VARIABLES
    \* the filename resolution of download_file (commands/download.rs)
    fnPc,               \* "idle" before the resolution, "done" after it
    response,           \* the response: its Content-Disposition header, its final URL path
    target_windows,     \* the build is for Windows (std::path follows the target)
    detected_filename,  \* what extract_filename_from_response returned
    actual_save_path,   \* the destination path
    temp_path           \* the staging path

fnVars == <<fnPc, response, target_windows, detected_filename, actual_save_path, temp_path>>

VARIABLES
    \* ControllerConfig::pool_key (commands/types.rs)
    keyPc,          \* "idle", "one" after the first call of pool_key, "done" after the second
    cfgA,           \* the first configuration
    cfgB,           \* the second configuration
    keyA,           \* cfgA.pool_key()
    keyB            \* cfgB.pool_key()

keyVars == <<keyPc, cfgA, cfgB, keyA, keyB>>

VARIABLES
    \* move_to_old_folder (maa_commands.rs) and the cache/old folder
    bakPc,          \* "idle", "listed" once the folder's content is fixed, "done" after the call
    old_names,      \* the names present in cache/old
    bak_dest,       \* the name the source was moved to, empty when nothing was moved
    bak_result      \* whether the call returned Ok

bakVars == <<bakPc, old_names, bak_dest, bak_result>>

VARIABLES
    \* the mutexes of MaaState and ControllerPool after a panic
    poisoned,       \* the mutexes that are poisoned
    outcome         \* history: the last operation, the poisoned mutexes it ran
                    \* into, and what its caller was handed

lockVars == <<poisoned, outcome>>

VARIABLES
    \* the threads that run commands and the mutexes they lock
    holder,         \* mutex -> the thread that holds its guard, or "free"
    thr             \* thread -> the steps of its command that are left

thrVars == <<holder, thr>>

vars == <<poolVars, instVars, downVars, sanVars, fnVars, keyVars, bakVars, lockVars, thrVars>>

\* ============================================================ ControllerPool

EmptyMap == [k \in {} |-> None]

MapPut(m, k, v) == [x \in DOMAIN m \cup {k} |-> IF x = k THEN v ELSE m[x]]

MapDel(m, k) == [x \in DOMAIN m \ {k} |-> m[x]]

\* mutant of PooledNew: the entry starts without a reference
PooledNewUncounted(c) == [controller |-> c, ref_count |-> 0, instance_ids |-> <<>>]

\* PooledController::new
PooledNew(c) == [controller |-> c, ref_count |-> 1, instance_ids |-> <<>>]

\* mutant of PooledAcquire: the reference count is not incremented
PooledAcquireNoCount(p, id) ==
    [p EXCEPT !.instance_ids = IF id \in Range(@) THEN @ ELSE Append(@, id)]

\* mutant of PooledAcquire: the owner is recorded on every call
PooledAcquireRecordsAgain(p, id) ==
    [p EXCEPT !.ref_count = @ + 1, !.instance_ids = Append(@, id)]

\* PooledController::acquire
PooledAcquire(p, id) ==
    [p EXCEPT !.ref_count = @ + 1,
              !.instance_ids = IF id \in Range(@) THEN @ ELSE Append(@, id)]

\* PooledController::release, the state it leaves
PooledRelease(p, id) ==
    [p EXCEPT !.instance_ids = SelectSeq(@, LAMBDA x : x # id),
              !.ref_count = @ - 1]

\* mutant of PooledReleaseShouldDestroy: off by one in the comparison
PooledReleaseShouldDestroyAtTwo(p) == p.ref_count = 2

\* PooledController::release, its result: fetch_sub returned 1
PooledReleaseShouldDestroy(p) == p.ref_count = 1

RefCount(k) == IF k \in DOMAIN controllers THEN controllers[k].ref_count ELSE 0

Owners(k) == IF k \in DOMAIN controllers THEN Range(controllers[k].instance_ids) ELSE {}

PoolInit ==
    /\ controllers = EmptyMap
    /\ ptr_to_key = EmptyMap
    /\ live = {}
    /\ last = [op |-> "none", key |-> "k1", inst |-> "i1", pre |-> 0, ret |-> None,
               ownersAfter |-> {}]
    /\ destroyBalance = 0
    /\ paired = TRUE

\* ControllerPool::get
PoolGet(key, id) ==
    /\ RefCount(key) < MaxRef
    /\ IF key \in DOMAIN controllers
       THEN /\ controllers' = [controllers EXCEPT ![key] = PooledAcquire(@, id)]
            /\ last' = [op |-> "get", key |-> key, inst |-> id, pre |-> RefCount(key),
                        ret |-> controllers[key].controller,
                        ownersAfter |-> Range(PooledAcquire(controllers[key], id).instance_ids)]
       ELSE /\ controllers' = controllers
            /\ last' = [op |-> "get", key |-> key, inst |-> id, pre |-> 0, ret |-> None,
                        ownersAfter |-> {}]
    /\ paired' = (paired /\ id \notin Owners(key))
    /\ UNCHANGED <<ptr_to_key, live, destroyBalance>>

\* ControllerPool::insert
PoolInsert(key, c, id) ==
    /\ c \notin live
    /\ controllers' = MapPut(controllers, key,
                             [PooledNew(c) EXCEPT !.instance_ids = Append(@, id)])
    /\ ptr_to_key' = MapPut(ptr_to_key, c, key)
    /\ live' = live \cup {c}
    /\ last' = [op |-> "insert", key |-> key, inst |-> id, pre |-> RefCount(key),
                ret |-> None, ownersAfter |-> {id}]
    /\ UNCHANGED <<destroyBalance, paired>>

\* ControllerPool::release
PoolRelease(key, id) ==
    LET present == key \in DOMAIN controllers
        after == IF present THEN PooledRelease(controllers[key], id) ELSE PooledNew(None)
        should_remove == IF present THEN PooledReleaseShouldDestroy(controllers[key])
                         ELSE FALSE
        crossed == present /\ controllers[key].ref_count > 0 /\ after.ref_count = 0
        ret == IF should_remove THEN controllers[key].controller ELSE None
    IN  /\ IF should_remove
           THEN /\ controllers' = MapDel(controllers, key)
                /\ ptr_to_key' = MapDel(ptr_to_key, controllers[key].controller)
           ELSE /\ controllers' = IF present
                                  THEN [controllers EXCEPT ![key] = after]
                                  ELSE controllers
                /\ ptr_to_key' = ptr_to_key
        /\ live' = live \ {ret}
        /\ destroyBalance' = destroyBalance + (IF crossed THEN 1 ELSE 0)
                                            - (IF ret # None THEN 1 ELSE 0)
        /\ last' = [op |-> "release", key |-> key, inst |-> id, pre |-> RefCount(key),
                    ret |-> ret,
                    ownersAfter |-> IF present THEN Range(after.instance_ids) ELSE {}]
        /\ paired' = (paired /\ (present => id \in Owners(key)))

\* ControllerPool::find_instances_by_controller_ptr
FindInstancesByControllerPtr(ptr) ==
    IF ptr \notin DOMAIN ptr_to_key THEN <<>>
    ELSE IF ptr_to_key[ptr] \notin DOMAIN controllers THEN <<>>
    ELSE controllers[ptr_to_key[ptr]].instance_ids

PoolNext ==
    \/ \E key \in Keys, id \in InstanceIds : PoolGet(key, id)
    \/ \E key \in Keys, c \in Ptrs, id \in InstanceIds : PoolInsert(key, c, id)
    \/ \E key \in Keys, id \in InstanceIds : PoolRelease(key, id)


\* ===================================================== instance commands

\* ControllerConfig values used by connect
AdbConfig(methods) ==
    [type |-> "Adb", adb_path |-> "adb", address |-> "127.0.0.1:5555",
     screencap_methods |-> methods, input_methods |-> "1", config |-> "{}"]

Win32Config == [type |-> "Win32", handle |-> 1, screencap_method |-> 1,
                mouse_method |-> 1, keyboard_method |-> 1]

PlayCoverConfig == [type |-> "PlayCover", address |-> "127.0.0.1:1717"]

NoConfig == [type |-> "none"]

\* "x" is a methods string that does not parse as u64
Configs == {AdbConfig("1"), AdbConfig("x"), Win32Config, PlayCoverConfig}

\* impl Default for InstanceRuntime
DefaultRuntime ==
    [resource |-> None, controller |-> None, tasker |-> None, agent_client |-> None,
     agent_child |-> None, task_ids |-> <<>>]

Call(name, h) == <<name, h>>

\* MAA_INVALID_ID, the id a post returns when the engine rejects it
InvalidId == 0

\* a post call of a batch: the handle, the position of the item in the input,
\* the id the engine answered
Post(name, h, item, answer) == <<name, h, item, answer>>

\* what the engine answers to the first n posts, outs[k] telling whether the
\* k-th is accepted: an accepted post gets the engine's next id
RECURSIVE PostAnswers(_, _, _)
PostAnswers(n, outs, free) ==
    IF n = 0 THEN <<>>
    ELSE LET before == PostAnswers(n - 1, outs, free)
             accepted == Cardinality({k \in 1..(n - 1) : outs[k]})
         IN  Append(before, IF outs[n] THEN free[accepted + 1] ELSE InvalidId)

\* mutant of CollectIds: the loop ends at the first rejected post
RECURSIVE CollectIdsStopsAtFailure(_)
CollectIdsStopsAtFailure(answers) ==
    IF answers = <<>> \/ Head(answers) = InvalidId THEN <<>>
    ELSE <<Head(answers)>> \o CollectIdsStopsAtFailure(Tail(answers))

\* the loop over the answers: a rejected post is skipped (continue), an
\* accepted id is pushed
RECURSIVE CollectIds(_)
CollectIds(answers) ==
    IF answers = <<>> THEN <<>>
    ELSE IF Head(answers) = InvalidId THEN CollectIds(Tail(answers))
    ELSE <<Head(answers)>> \o CollectIds(Tail(answers))

\* the result of a command over a batch of items
BatchCmd(cmd, id, ok, calls, ret, items) ==
    [cmd |-> cmd, id |-> id, ok |-> ok, calls |-> calls, ret |-> ret, items |-> items]

DestroyCalls == {"agent_client_destroy", "child_kill", "tasker_destroy",
                 "controller_destroy", "resource_destroy"}

\* handles an instance map and the start_tasks call in flight still refer to
Refs(insts, call) ==
    UNION {{insts[i].resource, insts[i].controller, insts[i].tasker,
            insts[i].agent_client, insts[i].agent_child} : i \in DOMAIN insts}
    \cup {call.resource, call.tasker, call.agent_client, call.child}

\* the engine's view after a sequence of native calls: destroy calls are counted;
\* a handle destroyed once that nothing refers to any more is forgotten (its
\* address may be handed out again)
ApplyCalls(hs, calls, insts, call) ==
    LET counted == [h \in DOMAIN hs |->
                      [hs[h] EXCEPT !.destroys =
                          @ + Cardinality({n \in DOMAIN calls :
                                 calls[n][1] \in DestroyCalls /\ calls[n][2] = h})]]
        held == Refs(insts, call)
        alive == {h \in DOMAIN hs : counted[h].destroys # 1 \/ h \in held}
        kept == alive \cup {h \in DOMAIN hs : \E t \in alive : h \in counted[t].bound}
    IN  [h \in kept |-> counted[h]]

KindIndex(kind) ==
    CASE kind = "Resource" -> 1 [] kind = "Controller" -> 2 [] kind = "Tasker" -> 3
      [] kind = "AgentClient" -> 4 [] kind = "Child" -> 5

InstIndex(id) == IF id = "i1" THEN 1 ELSE 2

\* the address of the g-th handle of a kind created in a command on instance id
HandleOf(kind, id, g) == 100 * KindIndex(kind) + 10 * InstIndex(id) + g

\* live handles that neither an instance nor the call in flight refers to
Leaked == {h \in DOMAIN handles : handles[h].destroys = 0 /\ h \notin Refs(instances, st)}

CanLeak == Cardinality(Leaked) < MaxLeaks

CanCreate(kind, id) ==
    /\ Cardinality(DOMAIN handles) < MaxHandles
    /\ \E g \in Gens : HandleOf(kind, id, g) \notin DOMAIN handles

\* a fresh address: one no existing handle has
NewHandle(kind, id) ==
    HandleOf(kind, id, CHOOSE g \in Gens :
                          /\ HandleOf(kind, id, g) \notin DOMAIN handles
                          /\ \A f \in 1..(g - 1) : HandleOf(kind, id, f) \in DOMAIN handles)

\* a handle the engine has created: cfg is the configuration a controller was
\* created from, bound the handles a tasker or agent client was bound to
AddHandle(hs, h, kind, cfg, bound) ==
    MapPut(hs, h, [kind |-> kind, destroys |-> 0, cfg |-> cfg, bound |-> bound])

Opt(h, calls) == IF h # None THEN calls ELSE <<>>

\* impl Drop for InstanceRuntime: the native calls it makes, in order
DropInstanceRuntime(rt) ==
    IF ~lib_loaded THEN <<>>
    ELSE Opt(rt.agent_client, <<Call("agent_client_disconnect", rt.agent_client),
                                Call("agent_client_destroy", rt.agent_client)>>)
         \o Opt(rt.agent_child, <<Call("child_kill", rt.agent_child)>>)
         \o Opt(rt.tasker, <<Call("tasker_destroy", rt.tasker)>>)
         \o Opt(rt.controller, <<Call("controller_destroy", rt.controller)>>)
         \o Opt(rt.resource, <<Call("resource_destroy", rt.resource)>>)

Cmd(cmd, id, ok, calls, ret) ==
    [cmd |-> cmd, id |-> id, ok |-> ok, calls |-> calls, ret |-> ret]

Known(id) == id \in DOMAIN instances

StIdle == [pc |-> "idle", id |-> "i1", resource |-> None, tasker |-> None,
           agent_client |-> None, child |-> None, agent |-> FALSE, ntasks |-> 0,
           ids |-> <<>>]

InstInit ==
    /\ lib_loaded = FALSE
    /\ instances = EmptyMap
    /\ handles = EmptyMap
    /\ st = StIdle
    /\ lastCmd = Cmd("none", "i1", TRUE, <<>>, <<>>)

\* maa_init / the load at startup in lib.rs
MaaInit ==
    /\ ~lib_loaded
    /\ lib_loaded' = TRUE
    /\ lastCmd' = Cmd("init", "i1", TRUE, <<>>, <<>>)
    /\ UNCHANGED <<instances, handles, st>>

\* mutant of CreateInstance: an existing runtime is replaced by a default one
CreateInstanceResets(id) ==
    /\ instances' = MapPut(instances, id, DefaultRuntime)
    /\ lastCmd' = Cmd("create", id, TRUE, <<>>, <<>>)
    /\ UNCHANGED <<lib_loaded, handles, st>>

\* maa_create_instance
CreateInstance(id) ==
    /\ instances' = IF Known(id) THEN instances ELSE MapPut(instances, id, DefaultRuntime)
    /\ lastCmd' = Cmd("create", id, TRUE, <<>>, <<>>)
    /\ UNCHANGED <<lib_loaded, handles, st>>

\* mutant of DestroyInstance: the runtime is torn down but stays in the map
DestroyInstanceKeepsEntry(id) ==
    LET calls == IF Known(id) THEN DropInstanceRuntime(instances[id]) ELSE <<>>
    IN  /\ instances' = instances
        /\ handles' = ApplyCalls(handles, calls, instances', st)
        /\ lastCmd' = Cmd("destroy", id, TRUE, calls, <<>>)
        /\ UNCHANGED <<lib_loaded, st>>

\* maa_destroy_instance: remove from the map, the removed value is dropped
DestroyInstance(id) ==
    LET calls == IF Known(id) THEN DropInstanceRuntime(instances[id]) ELSE <<>>
    IN  /\ instances' = MapDel(instances, id)
        /\ handles' = ApplyCalls(handles, calls, instances', st)
        /\ lastCmd' = Cmd("destroy", id, TRUE, calls, <<>>)
        /\ UNCHANGED <<lib_loaded, st>>

\* a command that returns Err before it changes anything
Fail(cmd, id) ==
    /\ lastCmd' = Cmd("failed", id, FALSE, <<>>, <<>>)
    /\ UNCHANGED <<lib_loaded, instances, handles, st>>

\* mutant of ReplaceController: the controller the instance held is left alone
ReplaceControllerKeepsOld(old, c) == <<Call("store_controller", c)>>

\* maa_connect_controller, the update of the instance: the controller it held
\* is taken and destroyed, then the new one is stored
ReplaceController(old, c) ==
    Opt(old, <<Call("controller_destroy", old)>>) \o <<Call("store_controller", c)>>

\* mutant of RejectController: the new controller is not destroyed
RejectControllerLeaks(c) == <<>>

\* maa_connect_controller after post_connection returned the invalid id
RejectController(c) == <<Call("controller_destroy", c)>>

\* maa_connect_controller; out is what the engine answers: "null" (create returned
\* a null pointer), "invalid" (post_connection returned the invalid id) or "ok"
ConnectController(id, cfg, out) ==
    IF ~lib_loaded \/ cfg.type = "PlayCover"
       \/ (cfg.type = "Adb" /\ cfg.screencap_methods = "x")
       \/ out = "null"
    THEN Fail("connect", id)
    ELSE
    /\ CanCreate("Controller", id)
    /\ LET c == NewHandle("Controller", id)
           hs == AddHandle(handles, c, "Controller", cfg, {})
           setup == <<Call("controller_add_sink", c), Call("controller_set_option", c),
                      Call("controller_post_connection", c)>>
       IN  IF out = "invalid"
           THEN /\ handles' = ApplyCalls(hs, RejectController(c), instances, st)
                /\ lastCmd' = Cmd("connect", id, FALSE, setup \o RejectController(c), <<>>)
                /\ UNCHANGED <<lib_loaded, instances, st>>
           ELSE IF ~Known(id)
           THEN /\ CanLeak
                /\ handles' = hs
                /\ lastCmd' = Cmd("connect_unknown", id, FALSE, setup, <<>>)
                /\ UNCHANGED <<lib_loaded, instances, st>>
           ELSE LET old == instances[id].controller
                    calls == setup \o ReplaceController(old, c)
                IN  /\ instances' = [instances EXCEPT ![id].controller = c]
                    /\ handles' = ApplyCalls(hs, calls, instances', st)
                    /\ lastCmd' = Cmd("connect", id, TRUE, calls, <<c>>)
                    /\ UNCHANGED <<lib_loaded, st>>

\* mutant of ResourceMissing: a resource is created on every call
ResourceMissingAlways(rt) == TRUE

\* instance.resource.is_none()
ResourceMissing(rt) == rt.resource = None

\* maa_load_resource; out is what resource_create answers ("null": a null
\* pointer), outs[k] whether post_bundle accepts the k-th path
LoadResource(id, out, outs) ==
    LET n == Len(outs)
        answers == PostAnswers(n, outs, [k \in 1..n |-> k])
        posts(r) == [k \in 1..n |-> Post("resource_post_bundle", r, k, answers[k])]
    IN
    IF ~lib_loaded \/ ~Known(id) THEN Fail("load_resource", id)
    ELSE IF ResourceMissing(instances[id])
    THEN IF out = "null" THEN Fail("load_resource", id)
         ELSE /\ CanCreate("Resource", id)
              /\ LET r == NewHandle("Resource", id)
                     calls == <<Call("resource_create", r), Call("resource_add_sink", r)>>
                              \o posts(r)
                 IN  /\ handles' = AddHandle(handles, r, "Resource", NoConfig, {})
                     /\ instances' = [instances EXCEPT ![id].resource = r]
                     /\ lastCmd' = BatchCmd("load_resource", id, TRUE, calls,
                                            CollectIds(answers), n)
                     /\ UNCHANGED <<lib_loaded, st>>
    ELSE /\ lastCmd' = BatchCmd("load_resource", id, TRUE, posts(instances[id].resource),
                                CollectIds(answers), n)
         /\ UNCHANGED <<lib_loaded, instances, handles, st>>

\* maa_destroy_resource
DestroyResource(id) ==
    IF ~lib_loaded \/ ~Known(id) THEN Fail("destroy_resource", id)
    ELSE LET rt == instances[id]
             calls == Opt(rt.resource, <<Call("resource_destroy", rt.resource)>>)
                      \o Opt(rt.tasker, <<Call("tasker_destroy", rt.tasker)>>)
         IN  /\ instances' = [instances EXCEPT ![id].resource = None, ![id].tasker = None]
             /\ handles' = ApplyCalls(handles, calls, instances', st)
             /\ lastCmd' = Cmd("destroy_resource", id, TRUE, calls, <<>>)
             /\ UNCHANGED <<lib_loaded, st>>

\* the task ids the engine can still hand out, in increasing order: those no
\* instance and no call in flight has recorded
RECURSIVE Ascending(_)
Ascending(S) ==
    IF S = {} THEN <<>>
    ELSE LET m == CHOOSE x \in S : \A y \in S : x <= y
         IN  <<m>> \o Ascending(S \ {m})

FreeTaskIds ==
    Ascending(TaskIds \ (UNION {Range(instances[i].task_ids) : i \in DOMAIN instances}
                                \cup Range(st.ids)))

\* the maa_tasker_inited call and what the engine answered
Inited(t, answer) == <<"tasker_inited", t, answer>>

\* mutant of TaskerCalls: a tasker is created and bound on every call
TaskerCallsAlways(id, t) ==
    <<Call("tasker_create", t), Call("tasker_add_sink", t),
      Call("tasker_bind_resource", t), Call("tasker_bind_controller", t)>>

\* the tasker an instance uses: the stored one, or one created now and bound to
\* the instance's resource and controller (maa_run_task, maa_start_tasks)
TaskerCalls(id, t) ==
    IF instances[id].tasker # None THEN <<>>
    ELSE <<Call("tasker_create", t), Call("tasker_add_sink", t),
           Call("tasker_bind_resource", t), Call("tasker_bind_controller", t)>>

TaskerHandles(id, t) ==
    IF instances[id].tasker # None THEN handles
    ELSE AddHandle(handles, t, "Tasker", NoConfig,
                   {instances[id].resource, instances[id].controller})

\* maa_run_task; out: "null" (tasker_create returned null), "uninit" (tasker not
\* initialized), "invalid" (post_task returned the invalid id) or "ok"
RunTask(id, out) ==
    IF ~lib_loaded \/ ~Known(id) THEN Fail("run_task", id)
    ELSE IF instances[id].resource = None \/ instances[id].controller = None
    THEN Fail("run_task", id)
    ELSE IF instances[id].tasker = None /\ out = "null" THEN Fail("run_task", id)
    ELSE
    /\ instances[id].tasker = None => CanCreate("Tasker", id)
    /\ out = "ok" => Len(FreeTaskIds) >= 1
    /\ LET t == IF instances[id].tasker # None THEN instances[id].tasker
                ELSE NewHandle("Tasker", id)
           made == TaskerCalls(id, t) \o <<Inited(t, out # "uninit")>>
           calls == IF out = "uninit" THEN made
                    ELSE made \o <<Call("tasker_post_task", t)>>
       IN  /\ handles' = TaskerHandles(id, t)
           /\ instances' = [instances EXCEPT
                               ![id].tasker = t,
                               ![id].task_ids = IF out = "ok" THEN Append(@, FreeTaskIds[1])
                                                ELSE @]
           /\ lastCmd' = Cmd("run_task", id, out = "ok", calls,
                             IF out = "ok" THEN <<FreeTaskIds[1]>> ELSE <<>>)
           /\ UNCHANGED <<lib_loaded, st>>

\* mutant of ClearedIds: the recorded ids are kept
ClearedIdsKept(ids) == ids

\* instance.task_ids.clear() (line 982)
ClearedIds(ids) == <<>>

\* maa_stop_task
StopTask(id) ==
    IF ~lib_loaded \/ ~Known(id) THEN Fail("stop_task", id)
    ELSE LET t == instances[id].tasker
         IN  /\ instances' = [instances EXCEPT ![id].task_ids = ClearedIds(@)]
             /\ lastCmd' = Cmd("stop_task", id, t # None,
                               Opt(t, <<Call("tasker_post_stop", t)>>), <<>>)
             /\ UNCHANGED <<lib_loaded, handles, st>>

\* mutant of AgentClientStop: the agent client is destroyed before the disconnect
AgentClientStopDestroysFirst(a) ==
    <<Call("agent_client_destroy", a), Call("agent_client_disconnect", a)>>

\* the taken agent client is disconnected, then destroyed (lines 1490-1496)
AgentClientStop(a) ==
    <<Call("agent_client_disconnect", a), Call("agent_client_destroy", a)>>

\* maa_stop_agent
StopAgent(id) ==
    IF ~lib_loaded \/ ~Known(id) THEN Fail("stop_agent", id)
    ELSE LET rt == instances[id]
             calls == Opt(rt.agent_client, AgentClientStop(rt.agent_client))
                      \o Opt(rt.agent_child, <<Call("child_kill", rt.agent_child),
                                               Call("child_wait", rt.agent_child)>>)
         IN  /\ instances' = [instances EXCEPT ![id].agent_client = None,
                                               ![id].agent_child = None]
             /\ handles' = ApplyCalls(handles, calls, instances', st)
             /\ lastCmd' = Cmd("stop_agent", id, TRUE, calls, <<>>)
             /\ UNCHANGED <<lib_loaded, st>>

\* ---- maa_start_tasks, an async command: its steps between lock scopes and awaits

StEnd(cmdOk, calls, ret) ==
    /\ st' = StIdle
    /\ lastCmd' = Cmd("start_tasks", st.id, cmdOk, calls, ret)

\* first lock scope: resource, controller, tasker (lines 1159-1192)
StartTasksBegin(id, agent, ntasks, out) ==
    /\ st.pc = "idle"
    /\ IF ~lib_loaded \/ ~Known(id) THEN Fail("start_tasks", id)
       ELSE IF instances[id].resource = None \/ instances[id].controller = None
       THEN Fail("start_tasks", id)
       ELSE IF instances[id].tasker = None /\ out = "null" THEN Fail("start_tasks", id)
       ELSE
       /\ instances[id].tasker = None => CanCreate("Tasker", id)
       /\ LET t == IF instances[id].tasker # None THEN instances[id].tasker
                   ELSE NewHandle("Tasker", id)
          IN  /\ handles' = TaskerHandles(id, t)
              /\ instances' = [instances EXCEPT ![id].tasker = t]
              /\ st' = [pc |-> IF agent THEN "agent" ELSE "post", id |-> id,
                        resource |-> instances[id].resource, tasker |-> t,
                        agent_client |-> None, child |-> None, agent |-> agent,
                        ntasks |-> ntasks, ids |-> <<>>]
              /\ lastCmd' = Cmd("start_tasks_begin", id, TRUE, TaskerCalls(id, t), <<>>)
              /\ UNCHANGED lib_loaded

\* agent client creation, binding and identifier (lines 1200-1235); out: "null",
\* "noid" (no string buffer or no identifier) or "ok"
StartTasksAgentCreate(out) ==
    /\ st.pc = "agent"
    /\ IF out = "null"
       THEN /\ handles' = ApplyCalls(handles, <<>>, instances, StIdle)
            /\ StEnd(FALSE, <<>>, <<>>)
            /\ UNCHANGED <<lib_loaded, instances>>
       ELSE /\ CanCreate("AgentClient", st.id)
            /\ LET a == NewHandle("AgentClient", st.id)
                   hs == AddHandle(handles, a, "AgentClient", NoConfig, {st.resource})
                   made == <<Call("agent_client_create", a),
                             Call("agent_client_bind_resource", a),
                             Call("agent_client_identifier", a)>>
               IN  IF out = "noid"
                   THEN /\ handles' = ApplyCalls(hs, <<Call("agent_client_destroy", a)>>,
                                                 instances, StIdle)
                        /\ StEnd(FALSE, made \o <<Call("agent_client_destroy", a)>>, <<>>)
                        /\ UNCHANGED <<lib_loaded, instances>>
                   ELSE /\ handles' = hs
                        /\ st' = [st EXCEPT !.pc = "spawn", !.agent_client = a]
                        /\ lastCmd' = Cmd("start_tasks_agent", st.id, TRUE, made, <<>>)
                        /\ UNCHANGED <<lib_loaded, instances>>

\* child process spawn and connect timeout (lines 1260-1389)
StartTasksSpawn(spawned) ==
    /\ st.pc = "spawn"
    /\ IF ~spawned
       THEN /\ CanLeak
            /\ handles' = ApplyCalls(handles, <<>>, instances, StIdle)
            /\ StEnd(FALSE, <<>>, <<>>)
            /\ UNCHANGED <<lib_loaded, instances>>
       ELSE /\ CanCreate("Child", st.id)
            /\ LET c == NewHandle("Child", st.id)
               IN  /\ handles' = AddHandle(handles, c, "Child", NoConfig, {})
                   /\ st' = [st EXCEPT !.pc = "connecting", !.child = c]
                   /\ lastCmd' = Cmd("start_tasks_spawn", st.id, TRUE,
                                     <<Call("child_spawn", c),
                                       Call("agent_client_set_timeout", st.agent_client)>>,
                                     <<>>)
                   /\ UNCHANGED <<lib_loaded, instances>>

\* mutant of ConnectFailed: the agent client is not destroyed
ConnectFailedLeaks(a) == <<Call("agent_client_connect", a)>>

\* the awaited connect returned 0: the agent client is destroyed (lines 1401-1414)
ConnectFailed(a) == <<Call("agent_client_connect", a), Call("agent_client_destroy", a)>>

\* the awaited agent connect returns, and its result is stored (lines 1395-1427)
StartTasksConnected(connected) ==
    /\ st.pc = "connecting"
    /\ ~Known(st.id) => CanLeak
    /\ LET a == st.agent_client
           insts == IF ~Known(st.id) THEN instances
                    ELSE IF connected
                    THEN [instances EXCEPT ![st.id].agent_client = a,
                                           ![st.id].agent_child = st.child]
                    ELSE [instances EXCEPT ![st.id].agent_child = st.child]
       IN  /\ instances' = insts
           /\ IF connected
              THEN /\ st' = [st EXCEPT !.pc = "post"]
                   /\ handles' = handles
                   /\ lastCmd' = Cmd("start_tasks_connect", st.id, TRUE,
                                     <<Call("agent_client_connect", a)>>, <<>>)
              ELSE /\ handles' = ApplyCalls(handles, ConnectFailed(a), insts, StIdle)
                   /\ StEnd(FALSE, ConnectFailed(a), <<>>)
           /\ UNCHANGED lib_loaded

\* the ids start_tasks collects from its first n posts
PostIds(n, outs, free) == CollectIds(PostAnswers(n, outs, free))

\* inited check and one post per task (lines 1433-1457)
StartTasksPost(inited, outs) ==
    /\ st.pc = "post"
    /\ outs \in [1..st.ntasks -> BOOLEAN]
    /\ IF ~inited
       THEN /\ handles' = ApplyCalls(handles, <<>>, instances, StIdle)
            /\ StEnd(FALSE, <<Inited(st.tasker, FALSE)>>, <<>>)
            /\ UNCHANGED <<lib_loaded, instances>>
       ELSE /\ Cardinality({n \in 1..st.ntasks : outs[n]}) <= Len(FreeTaskIds)
            /\ LET ids == PostIds(st.ntasks, outs, FreeTaskIds)
                IN
                /\ st' = [st EXCEPT !.pc = "record", !.ids = ids]
                /\ lastCmd' = Cmd("start_tasks_post", st.id, TRUE,
                                  <<Inited(st.tasker, TRUE)>>
                                  \o [n \in 1..st.ntasks |->
                                        Post("tasker_post_task", st.tasker, n,
                                             PostAnswers(st.ntasks, outs, FreeTaskIds)[n])],
                                  <<>>)
                /\ UNCHANGED <<lib_loaded, instances, handles>>

\* the posted ids are recorded on the instance (lines 1462-1475)
StartTasksRecord ==
    /\ st.pc = "record"
    /\ instances' = IF Known(st.id) THEN [instances EXCEPT ![st.id].task_ids = st.ids]
                    ELSE instances
    /\ handles' = ApplyCalls(handles, <<>>, instances', StIdle)
    /\ StEnd(TRUE, <<>>, st.ids)
    /\ UNCHANGED lib_loaded

EngineOuts == {"null", "invalid", "ok"}

TaskOuts == {"null", "uninit", "invalid", "ok"}

\* the commands that build up and tear down an instance's handles
TeardownNext(ids, cfgs, counts) ==
    \/ MaaInit
    \/ \E id \in ids : CreateInstance(id)
    \/ \E id \in ids : DestroyInstance(id)
    \/ \E id \in ids, cfg \in cfgs, out \in EngineOuts : ConnectController(id, cfg, out)
    \/ \E id \in ids, out \in {"null", "ok"}, n \in counts :
          \E outs \in [1..n -> BOOLEAN] : LoadResource(id, out, outs)
    \/ \E id \in ids : StopAgent(id)
    \/ \E id \in ids, agent \in BOOLEAN, n \in counts, out \in {"null", "ok"} :
          StartTasksBegin(id, agent, n, out)
    \/ \E out \in {"null", "noid", "ok"} : StartTasksAgentCreate(out)
    \/ \E spawned \in BOOLEAN : StartTasksSpawn(spawned)
    \/ \E connected \in BOOLEAN : StartTasksConnected(connected)
    \/ \E inited \in BOOLEAN, outs \in [1..st.ntasks -> BOOLEAN] : StartTasksPost(inited, outs)
    \/ StartTasksRecord

\* the commands that run and stop tasks outside maa_start_tasks
TaskNext(ids) ==
    \/ \E id \in ids : DestroyResource(id)
    \/ \E id \in ids, out \in TaskOuts : RunTask(id, out)
    \/ \E id \in ids : StopTask(id)

\* every command, on the instance ids in ids
InstNext(ids, cfgs) == TeardownNext(ids, cfgs, EntryCounts) \/ TaskNext(ids)

\* the commands that create and destroy instances and their first handles
FleetNext(ids, cfgs) ==
    \/ MaaInit
    \/ \E id \in ids : CreateInstance(id)
    \/ \E id \in ids : DestroyInstance(id)
    \/ \E id \in ids, cfg \in cfgs, out \in EngineOuts : ConnectController(id, cfg, out)
    \/ \E id \in ids, out \in {"null", "ok"}, outs \in [1..1 -> BOOLEAN] :
          LoadResource(id, out, outs)

\* the commands that create, use and stop the tasker of an instance
TaskerNext(ids, cfgs, counts) ==
    \/ MaaInit
    \/ \E id \in ids : CreateInstance(id)
    \/ \E id \in ids : DestroyInstance(id)
    \/ \E id \in ids, cfg \in cfgs : ConnectController(id, cfg, "ok")
    \/ \E id \in ids, out \in {"null", "ok"}, outs \in [1..1 -> BOOLEAN] :
          LoadResource(id, out, outs)
    \/ \E id \in ids : DestroyResource(id)
    \/ \E id \in ids, out \in TaskOuts : RunTask(id, out)
    \/ \E id \in ids : StopTask(id)
    \/ \E id \in ids, n \in counts, out \in {"null", "ok"} : StartTasksBegin(id, FALSE, n, out)
    \/ \E inited \in BOOLEAN, outs \in [1..st.ntasks -> BOOLEAN] : StartTasksPost(inited, outs)
    \/ StartTasksRecord

\* the commands that post batches, on one connected instance
BatchNext(ids, cfgs, counts) ==
    \/ MaaInit
    \/ \E id \in ids : CreateInstance(id)
    \/ \E id \in ids, cfg \in cfgs : ConnectController(id, cfg, "ok")
    \/ \E id \in ids, out \in {"null", "ok"}, n \in counts :
          \E outs \in [1..n -> BOOLEAN] : LoadResource(id, out, outs)
    \/ \E id \in ids, n \in counts, out \in {"null", "ok"} : StartTasksBegin(id, FALSE, n, out)
    \/ \E inited \in BOOLEAN, outs \in [1..st.ntasks -> BOOLEAN] : StartTasksPost(inited, outs)
    \/ StartTasksRecord

\* ========================================================= streaming download

\* sizes are counted in units of 128 KiB: the buffer is flushed at 256 KiB
FlushThreshold == 2

Threads == {"d1", "d2"}

\* the sizes a received chunk can have: below, at and above the threshold
ChunkSizes == {1, 2, 3}

\* the file at the destination before any download, and its inode
PrevInode == 100

PreviousFile == <<99, 99>>

\* the length of the body session sid is served
BodyLen(sid) == 1 + (sid % MaxBytes)

\* the k-th byte of that body
ByteOf(sid, k) == 10 * sid + k

\* the body from byte a to byte b
Body(sid, a, b) == [k \in 1..(b - a + 1) |-> ByteOf(sid, a + k - 1)]

Cancelled(r) == r \in {"cancelled_flag", "cancelled_epoch"}

DlIdle(result, sid, got) ==
    [pc |-> "idle", sid |-> sid, file |-> None, off |-> 0, buffer |-> <<>>,
     downloaded |-> got, result |-> result, steps |-> <<>>]

DownInit ==
    /\ epoch = 0
    /\ cancelled = FALSE
    /\ dir = [p \in {"dest"} |-> PrevInode]
    /\ data = [i \in {PrevInode} |-> PreviousFile]
    /\ old_dir = {}
    /\ dl = [t \in Threads |-> DlIdle("none", 0, 0)]
    /\ cn = "idle"
    /\ cancelAfter = [t \in Threads |-> "none"]

\* inodes stay while a path or an open file refers to them
Gc(d, files, contents) ==
    [i \in (Range(d) \cup {files[t].file : t \in Threads}) \ {None} |-> contents[i]]

\* write_all at the file's position: a gap past the end reads as zeros; an empty
\* buffer is not written (line 199)
WriteAt(content, off, bytes) ==
    IF bytes = <<>> THEN content ELSE
    [k \in 1..(IF Len(content) > off + Len(bytes) THEN Len(content) ELSE off + Len(bytes)) |->
        IF k > off /\ k <= off + Len(bytes) THEN bytes[k - off]
        ELSE IF k <= Len(content) THEN content[k] ELSE 0]

\* mutant of SessionIdFrom: the value fetch_add returns is used as it is
SessionIdFromPrevious(previous) == previous

\* the session id is the value fetch_add returned, plus one (line 41)
SessionIdFrom(previous) == previous + 1

\* download_file, line 41: the session takes the next epoch
DownloadStart(t) ==
    /\ dl[t].pc = "idle"
    /\ epoch < MaxSessions
    /\ epoch' = epoch + 1
    /\ dl' = [dl EXCEPT ![t] = [DlIdle("none", SessionIdFrom(epoch), 0) EXCEPT !.pc = "reset"]]
    /\ cancelAfter' = [cancelAfter EXCEPT ![t] = "none"]
    /\ UNCHANGED <<cancelled, dir, data, old_dir, cn>>

\* download_file, line 45: the cancel flag is reset
DownloadResetFlag(t) ==
    /\ dl[t].pc = "reset"
    /\ cancelled' = FALSE
    /\ dl' = [dl EXCEPT ![t].pc = "request"]
    /\ UNCHANGED <<epoch, dir, data, old_dir, cn, cancelAfter>>

\* download_file, lines 47-122: the request is sent and the temp file created
\* (truncated when the path exists); out: "http_error", "create_error" or "ok"
DownloadCreate(t, out) ==
    /\ dl[t].pc = "request"
    /\ IF out # "ok"
       THEN /\ dl' = [dl EXCEPT ![t] = DlIdle(out, dl[t].sid, 0)]
            /\ UNCHANGED <<dir, data>>
       ELSE LET ino == IF "temp" \in DOMAIN dir THEN dir["temp"] ELSE dl[t].sid
            IN  /\ dir' = MapPut(dir, "temp", ino)
                /\ dl' = [dl EXCEPT ![t].pc = "stream", ![t].file = ino]
                /\ data' = Gc(dir', dl', MapPut(data, ino, <<>>))
    /\ UNCHANGED <<epoch, cancelled, old_dir, cn, cancelAfter>>

\* the abort of lines 138-142 and 189-195: the file is dropped, the temp path removed
DownloadAbort(t) ==
    /\ dl' = [dl EXCEPT ![t] = DlIdle(IF cancelled THEN "cancelled_flag" ELSE "cancelled_epoch",
                                      dl[t].sid, dl[t].downloaded)]
    /\ dir' = MapDel(dir, "temp")
    /\ data' = Gc(dir', dl', data)

\* download_file, lines 133-148: the stream yields a chunk of size item (ok) or an
\* error; the flag and the epoch are checked, then the chunk is appended to the buffer
DownloadChunk(t, item, ok) ==
    /\ dl[t].pc = "stream"
    /\ dl[t].downloaded < BodyLen(dl[t].sid)
    /\ dl[t].downloaded + item <= BodyLen(dl[t].sid)
    /\ IF cancelled \/ epoch # dl[t].sid
       THEN DownloadAbort(t)
       ELSE IF ~ok
       THEN /\ dl' = [dl EXCEPT ![t] = DlIdle("stream_error", dl[t].sid, dl[t].downloaded)]
            /\ data' = Gc(dir, dl', data)
            /\ dir' = dir
       ELSE LET chunk == Body(dl[t].sid, dl[t].downloaded + 1, dl[t].downloaded + item)
                buffer == dl[t].buffer \o chunk
            IN  /\ dl' = [dl EXCEPT ![t].buffer = buffer,
                                    ![t].downloaded = @ + item,
                                    ![t].pc = IF Len(buffer) >= FlushThreshold
                                              THEN "write" ELSE "stream"]
                /\ UNCHANGED <<dir, data>>
    /\ UNCHANGED <<epoch, cancelled, old_dir, cn, cancelAfter>>

\* download_file, lines 151-155: the full buffer is written and cleared
DownloadWrite(t, ok) ==
    /\ dl[t].pc = "write"
    /\ IF ok
       THEN /\ data' = [data EXCEPT ![dl[t].file] = WriteAt(@, dl[t].off, dl[t].buffer)]
            /\ dl' = [dl EXCEPT ![t].off = @ + Len(dl[t].buffer), ![t].buffer = <<>>,
                                ![t].pc = "stream"]
       ELSE /\ dl' = [dl EXCEPT ![t] = DlIdle("write_error", dl[t].sid, dl[t].downloaded)]
            /\ data' = Gc(dir, dl', data)
    /\ UNCHANGED <<epoch, cancelled, dir, old_dir, cn, cancelAfter>>

\* mutant of DownloadFinalCheck: only the cancel flag is checked, not the epoch
DownloadFinalCheckFlagOnly(t) ==
    /\ dl[t].pc = "stream"
    /\ dl[t].downloaded = BodyLen(dl[t].sid)
    /\ IF cancelled
       THEN DownloadAbort(t)
       ELSE /\ dl' = [dl EXCEPT ![t].pc = "flush"]
            /\ UNCHANGED <<dir, data>>
    /\ UNCHANGED <<epoch, cancelled, old_dir, cn, cancelAfter>>

\* download_file, lines 185-196: the stream has ended, the last check
DownloadFinalCheck(t) ==
    /\ dl[t].pc = "stream"
    /\ dl[t].downloaded = BodyLen(dl[t].sid)
    /\ IF cancelled \/ epoch # dl[t].sid
       THEN DownloadAbort(t)
       ELSE /\ dl' = [dl EXCEPT ![t].pc = "flush"]
            /\ UNCHANGED <<dir, data>>
    /\ UNCHANGED <<epoch, cancelled, old_dir, cn, cancelAfter>>

\* mutant of FlushSteps: the final progress event is emitted before the sync
FlushStepsProgressFirst(buffer) ==
    (IF buffer # <<>> THEN <<"write">> ELSE <<>>) \o <<"progress", "sync">>

\* what the session does between its last check and the backup, in order: a
\* non-empty buffer is written (lines 199-202), the file synced (205-207), the
\* final progress event emitted (210-219)
FlushSteps(buffer) ==
    (IF buffer # <<>> THEN <<"write">> ELSE <<>>) \o <<"sync", "progress">>

\* download_file, lines 198-219: the rest of the buffer is written, the file
\* synced and dropped; ok is whether write_all and sync_all succeed
DownloadFlush(t, ok) ==
    /\ dl[t].pc = "flush"
    /\ IF ok
       THEN /\ dl' = [dl EXCEPT ![t].off = @ + Len(dl[t].buffer), ![t].buffer = <<>>,
                                ![t].file = None, ![t].pc = "backup",
                                ![t].steps = @ \o FlushSteps(dl[t].buffer)]
            /\ data' = Gc(dir, dl', [data EXCEPT ![dl[t].file] =
                                        WriteAt(@, dl[t].off, dl[t].buffer)])
       ELSE /\ dl' = [dl EXCEPT ![t] = DlIdle("write_error", dl[t].sid, dl[t].downloaded)]
            /\ data' = Gc(dir, dl', data)
    /\ UNCHANGED <<epoch, cancelled, dir, old_dir, cn, cancelAfter>>

\* download_file, lines 221-224, and move_to_old_folder: an existing destination is
\* moved to the old folder; moved is whether that rename succeeds (its result is ignored)
DownloadBackup(t, moved) ==
    /\ dl[t].pc = "backup"
    /\ IF "dest" \in DOMAIN dir /\ moved
       THEN /\ old_dir' = old_dir \cup {data[dir["dest"]]}
            /\ dir' = MapDel(dir, "dest")
            /\ data' = Gc(dir', dl, data)
       ELSE UNCHANGED <<old_dir, dir, data>>
    /\ dl' = [dl EXCEPT ![t].pc = "rename",
                        ![t].steps = IF "dest" \in DOMAIN dir THEN Append(@, "backup") ELSE @]
    /\ UNCHANGED <<epoch, cancelled, cn, cancelAfter>>

\* download_file, lines 226-238: the temp path is renamed onto the destination
DownloadRename(t) ==
    /\ dl[t].pc = "rename"
    /\ IF "temp" \in DOMAIN dir
       THEN /\ dir' = [p \in {"dest"} |-> dir["temp"]]
            /\ dl' = [dl EXCEPT ![t] = [DlIdle("ok", dl[t].sid, dl[t].downloaded)
                                           EXCEPT !.steps = Append(dl[t].steps, "rename")]]
       ELSE /\ dir' = dir
            /\ dl' = [dl EXCEPT ![t] = DlIdle("rename_error", dl[t].sid, dl[t].downloaded)]
    /\ data' = Gc(dir', dl', data)
    /\ UNCHANGED <<epoch, cancelled, old_dir, cn, cancelAfter>>

\* which sessions a cancel request reaches once they have reset the flag: the
\* current one ("current"), or one already superseded ("stale")
Reached(t) ==
    IF dl[t].pc \in {"idle", "reset"} THEN cancelAfter[t]
    ELSE IF dl[t].sid = epoch THEN "current"
    ELSE IF cancelAfter[t] = "current" THEN "current"
    ELSE "stale"

\* cancel_download, line 247: the flag is set
CancelSetFlag ==
    /\ cn = "idle"
    /\ cancelled' = TRUE
    /\ cn' = "remove"
    /\ cancelAfter' = [t \in Threads |-> Reached(t)]
    /\ UNCHANGED <<epoch, dir, data, old_dir, dl>>

\* cancel_download, lines 250-262: the temp file is removed when it exists
CancelRemoveTemp ==
    /\ cn = "remove"
    /\ cn' = "idle"
    /\ dir' = MapDel(dir, "temp")
    /\ data' = Gc(dir', dl, data)
    /\ UNCHANGED <<epoch, cancelled, old_dir, dl, cancelAfter>>

DownloadNext ==
    \/ \E t \in Threads : DownloadStart(t)
    \/ \E t \in Threads : DownloadResetFlag(t)
    \/ \E t \in Threads, out \in {"http_error", "create_error", "ok"} : DownloadCreate(t, out)
    \/ \E t \in Threads, item \in ChunkSizes, ok \in BOOLEAN : DownloadChunk(t, item, ok)
    \/ \E t \in Threads, ok \in BOOLEAN : DownloadWrite(t, ok)
    \/ \E t \in Threads : DownloadFinalCheck(t)
    \/ \E t \in Threads, ok \in BOOLEAN : DownloadFlush(t, ok)
    \/ \E t \in Threads, moved \in BOOLEAN : DownloadBackup(t, moved)
    \/ \E t \in Threads : DownloadRename(t)
    \/ CancelSetFlag
    \/ CancelRemoveTemp

\* ========================================================= filename sanitizer

\* the characters candidates are built from: both separators, the dot, a letter
NameChars == {"/", "\\", ".", "a"}

RECURSIVE NamesOfLen(_)
NamesOfLen(n) ==
    IF n = 0 THEN {<<>>}
    ELSE {Append(s, c) : s \in NamesOfLen(n - 1), c \in NameChars}

\* the candidates of the spec's examples, character by character
EvilExe == <<".", ".", "/", ".", ".", "/", "e", "v", "i", "l", ".", "e", "x", "e">>

ReportPdf == <<"r", "e", "p", "o", "r", "t", ".", "p", "d", "f">>

NoExt == <<"n", "o", "e", "x", "t">>

FilenameInputs == UNION {NamesOfLen(n) : n \in 0..MaxNameLen} \cup {EvilExe, ReportPdf, NoExt}

IsSeparator(c) == c = "/" \/ c = "\\"

\* rsplit(|c| c == '/' || c == '\\').next(): the part after the last separator
LastComponent(s) ==
    LET seps == {i \in 1..Len(s) : IsSeparator(s[i])}
        start == IF seps = {} THEN 1 ELSE 1 + CHOOSE i \in seps : \A j \in seps : j <= i
    IN  SubSeq(s, start, Len(s))

StartsWithDotDot(s) == Len(s) >= 2 /\ s[1] = "." /\ s[2] = "."

HasDot(s) == \E i \in 1..Len(s) : s[i] = "."

SomeName(s) == [some |-> TRUE, value |-> s]

NoName == [some |-> FALSE, value |-> <<>>]

\* mutant of SanitizeFilename: names that start with ".." are not filtered
SanitizeFilenameKeepsDotDot(s) ==
    LET name == LastComponent(s)
    IN  IF name = <<>> \/ name = <<".">> \/ name = <<".", ".">> THEN NoName
        ELSE IF ~HasDot(name) THEN NoName
        ELSE SomeName(name)

\* sanitize_filename
SanitizeFilename(s) ==
    LET name == LastComponent(s)
    IN  IF name = <<>> \/ name = <<".">> \/ name = <<".", ".">> \/ StartsWithDotDot(name)
        THEN NoName
        ELSE IF ~HasDot(name) THEN NoName
        ELSE SomeName(name)

SanInit ==
    /\ sanPc = "idle"
    /\ filename = <<>>
    /\ sanitized = NoName

\* a call of sanitize_filename on a candidate
SanitizeCall(s) ==
    /\ filename' = s
    /\ sanitized' = SanitizeFilename(s)
    /\ sanPc' = "done"

SanitizeNext == \E s \in FilenameInputs : SanitizeCall(s)

\* ====================================================== filename resolution

RECURSIVE SeqsOfLen(_, _)
SeqsOfLen(S, n) ==
    IF n = 0 THEN {<<>>}
    ELSE {Append(s, c) : s \in SeqsOfLen(S, n - 1), c \in S}

SeqsUpTo(S, n) == UNION {SeqsOfLen(S, k) : k \in 0..n}

\* the characters of a header value: those of a candidate and the colon
HeaderChars == NameChars \cup {":"}

\* percent-escapes, one token each: an encoded slash and an encoded backslash
Escapes == {"%2F", "%5C"}

\* the tokens of a URL path: the url crate leaves no raw backslash in it
UrlTokens == (HeaderChars \ {"\\"}) \cup Escapes

\* urlencoding::decode
PercentDecode(s) ==
    [i \in 1..Len(s) |->
        IF s[i] = "%2F" THEN "/" ELSE IF s[i] = "%5C" THEN "\\" ELSE s[i]]

\* a response without a Content-Disposition header
NoHeader == [present |-> FALSE, star |-> NoName, plain |-> NoName]

\* a Content-Disposition header: its filename*= value after the '' and its
\* filename= value, each absent or a token string
Header(star, plain) == [present |-> TRUE, star |-> star, plain |-> plain]

\* parse_content_disposition: filename*= percent-decoded first, then filename=
ParseContentDisposition(h) ==
    IF h.star.some /\ PercentDecode(h.star.value) # <<>>
    THEN SomeName(PercentDecode(h.star.value))
    ELSE IF h.plain.some /\ h.plain.value # <<>> THEN SomeName(h.plain.value)
    ELSE NoName

\* path.rsplit('/').next(): the part of the URL path after its last slash
UrlLastSegment(path) ==
    LET slashes == {i \in 1..Len(path) : path[i] = "/"}
        start == IF slashes = {} THEN 1
                 ELSE 1 + CHOOSE i \in slashes : \A j \in slashes : j <= i
    IN  SubSeq(path, start, Len(path))

\* mutant of ExtractFilenameFromResponse: a header name that the sanitizer
\* rejects ends the search
ExtractFilenameHeaderBlocks(resp) ==
    LET cd == IF resp.header.present THEN ParseContentDisposition(resp.header) ELSE NoName
        last_segment == UrlLastSegment(resp.path)
        decoded == PercentDecode(last_segment)
        fromUrl == IF last_segment # <<>> /\ HasDot(decoded)
                   THEN SanitizeFilename(decoded) ELSE NoName
    IN  IF cd.some THEN SanitizeFilename(cd.value) ELSE fromUrl

\* extract_filename_from_response
ExtractFilenameFromResponse(resp) ==
    LET cd == IF resp.header.present THEN ParseContentDisposition(resp.header) ELSE NoName
        fromHeader == IF cd.some THEN SanitizeFilename(cd.value) ELSE NoName
        last_segment == UrlLastSegment(resp.path)
        decoded == PercentDecode(last_segment)
        fromUrl == IF last_segment # <<>> /\ HasDot(decoded)
                   THEN SanitizeFilename(decoded) ELSE NoName
    IN  IF fromHeader.some THEN fromHeader ELSE fromUrl

\* std::path::MAIN_SEPARATOR
MainSeparator(windows) == IF windows THEN "\\" ELSE "/"

\* the letters of the alphabet, which Windows reads as drive letters before a colon
DriveLetters == {"a"}

\* a Windows path prefix without a root, as in C:name
HasDrivePrefix(name) == Len(name) >= 2 /\ name[1] \in DriveLetters /\ name[2] = ":"

\* a path with a root
HasRoot(name, windows) ==
    name # <<>> /\ (name[1] = "/" \/ (windows /\ name[1] = "\\"))

\* Path::join: a path with a prefix or a root replaces the base, any other
\* path is appended to it after a separator
PathJoin(parent, name, windows) ==
    IF (windows /\ HasDrivePrefix(name)) \/ HasRoot(name, windows) THEN name
    ELSE parent \o <<MainSeparator(windows)>> \o name

\* the directory of the caller's save path
SaveParent == <<"c", "a", "c", "h", "e">>

\* the file name of the caller's save path
SaveName == <<"m", "x", "u", ".", "z", "i", "p">>

\* the caller's save_path
SavePath(windows) == PathJoin(SaveParent, SaveName, windows)

\* actual_save_path of download_file
ActualSavePath(detected, windows) ==
    IF detected.some THEN PathJoin(SaveParent, detected.value, windows)
    ELSE SavePath(windows)

\* temp_path of download_file
TempPath(actual) == actual \o <<".downloading">>

\* headers with a filename= value, and headers with a filename*= value alone
\* or before a filename= value
HeaderInputs ==
    {Header(NoName, SomeName(s)) : s \in SeqsUpTo(HeaderChars, MaxNameLen)}
    \cup {Header(SomeName(s), p) : s \in SeqsUpTo(HeaderChars \cup Escapes, MaxNameLen),
                                   p \in {NoName, SomeName(ReportPdf)}}

\* responses whose header decides, and responses without a usable header on
\* every final URL path
ResponseInputs ==
    {[header |-> h, path |-> <<"/">>] : h \in HeaderInputs}
    \cup {[header |-> h, path |-> <<"/">> \o u] :
            h \in {NoHeader, Header(NoName, SomeName(NoExt))},
            u \in SeqsUpTo(UrlTokens, MaxNameLen)}

FnInit ==
    /\ fnPc = "idle"
    /\ response = [header |-> NoHeader, path |-> <<"/">>]
    /\ target_windows = FALSE
    /\ detected_filename = NoName
    /\ actual_save_path = <<>>
    /\ temp_path = <<>>

\* download_file from the response to the staging path
ResolveFilename(resp, windows) ==
    /\ fnPc = "idle"
    /\ fnPc' = "done"
    /\ response' = resp
    /\ target_windows' = windows
    /\ detected_filename' = ExtractFilenameFromResponse(resp)
    /\ actual_save_path' = ActualSavePath(ExtractFilenameFromResponse(resp), windows)
    /\ temp_path' = TempPath(ActualSavePath(ExtractFilenameFromResponse(resp), windows))

\* the call is over
ResolveReturn ==
    /\ fnPc = "done"
    /\ fnPc' = "idle"
    /\ response' = [header |-> NoHeader, path |-> <<"/">>]
    /\ target_windows' = FALSE
    /\ detected_filename' = NoName
    /\ actual_save_path' = <<>>
    /\ temp_path' = <<>>

FilenameNext ==
    \/ fnPc = "idle" /\ \E resp \in ResponseInputs, windows \in BOOLEAN :
                            ResolveFilename(resp, windows)
    \/ ResolveReturn


\* ================================================================== pool_key

\* the characters of a configuration's string fields: a letter and the colon
FieldChars == {"a", ":"}

\* the values of a String field
FieldStrings == SeqsUpTo(FieldChars, MaxFieldLen)

\* the values of a u64 field given as a string
MethodStrings == {<<"1">>, <<"2">>}

\* the values of a u64 field
U64Inputs == {1, 10}

Xbox360 == <<"X", "b", "o", "x", "3", "6", "0">>

DS4 == <<"D", "S", "4">>

\* the values of gamepad_type
GamepadTypes == {NoName, SomeName(Xbox360), SomeName(DS4)}

\* the values of Gamepad's screencap_method
OptU64Inputs == {[some |-> FALSE, value |-> 0]} \cup {[some |-> TRUE, value |-> n] : n \in {0, 1}}

\* ControllerConfig, each variant with all of its fields
KeyConfigs ==
    [type : {"Adb"}, adb_path : FieldStrings, address : FieldStrings,
     screencap_methods : MethodStrings, input_methods : MethodStrings,
     config : {<<>>, <<"a">>}]
    \cup [type : {"Win32"}, handle : U64Inputs, screencap_method : U64Inputs,
          mouse_method : U64Inputs, keyboard_method : U64Inputs]
    \cup [type : {"Gamepad"}, handle : U64Inputs, gamepad_type : GamepadTypes,
          screencap_method : OptU64Inputs]
    \cup [type : {"PlayCover"}, address : FieldStrings]

Digits == <<"0", "1", "2", "3", "4", "5", "6", "7", "8", "9">>

\* Display for u64: the decimal digits
RECURSIVE Decimal(_)
Decimal(n) ==
    IF n < 10 THEN <<Digits[n + 1]>> ELSE Append(Decimal(n \div 10), Digits[(n % 10) + 1])

\* Option::unwrap_or
UnwrapOr(opt, default) == IF opt.some THEN opt.value ELSE default

\* the fields of a format! call after the variant's tag, each after a colon
RECURSIVE ColonJoined(_)
ColonJoined(fields) ==
    IF fields = <<>> THEN <<>>
    ELSE <<":">> \o Head(fields) \o ColonJoined(Tail(fields))

\* mutant of PoolKey: Gamepad's screencap_method is left out of the key
PoolKeyDropsField(cfg) ==
    IF cfg.type = "Adb"
    THEN <<"a", "d", "b">> \o ColonJoined(<<cfg.adb_path, cfg.address,
             cfg.screencap_methods, cfg.input_methods, cfg.config>>)
    ELSE IF cfg.type = "Win32"
    THEN <<"w", "i", "n", "3", "2">> \o ColonJoined(<<Decimal(cfg.handle),
             Decimal(cfg.screencap_method), Decimal(cfg.mouse_method),
             Decimal(cfg.keyboard_method)>>)
    ELSE IF cfg.type = "Gamepad"
    THEN <<"g", "a", "m", "e", "p", "a", "d">> \o ColonJoined(<<Decimal(cfg.handle),
             UnwrapOr(cfg.gamepad_type, Xbox360)>>)
    ELSE <<"p", "l", "a", "y", "c", "o", "v", "e", "r">> \o ColonJoined(<<cfg.address>>)

\* ControllerConfig::pool_key
PoolKey(cfg) ==
    IF cfg.type = "Adb"
    THEN <<"a", "d", "b">> \o ColonJoined(<<cfg.adb_path, cfg.address,
             cfg.screencap_methods, cfg.input_methods, cfg.config>>)
    ELSE IF cfg.type = "Win32"
    THEN <<"w", "i", "n", "3", "2">> \o ColonJoined(<<Decimal(cfg.handle),
             Decimal(cfg.screencap_method), Decimal(cfg.mouse_method),
             Decimal(cfg.keyboard_method)>>)
    ELSE IF cfg.type = "Gamepad"
    THEN <<"g", "a", "m", "e", "p", "a", "d">> \o ColonJoined(<<Decimal(cfg.handle),
             UnwrapOr(cfg.gamepad_type, Xbox360),
             Decimal(UnwrapOr(cfg.screencap_method, 0))>>)
    ELSE <<"p", "l", "a", "y", "c", "o", "v", "e", "r">> \o ColonJoined(<<cfg.address>>)

KeyInit ==
    /\ keyPc = "idle"
    /\ cfgA = NoConfig
    /\ cfgB = NoConfig
    /\ keyA = <<>>
    /\ keyB = <<>>

\* pool_key called on a configuration: the first call, then the second
PoolKeyCall(cfg) ==
    \/ /\ keyPc = "idle"
       /\ keyPc' = "one"
       /\ cfgA' = cfg
       /\ keyA' = PoolKey(cfg)
       /\ UNCHANGED <<cfgB, keyB>>
    \/ /\ keyPc = "one"
       /\ keyPc' = "done"
       /\ cfgB' = cfg
       /\ keyB' = PoolKey(cfg)
       /\ UNCHANGED <<cfgA, keyA>>

\* the keys are dropped
PoolKeyReturn ==
    /\ keyPc = "done"
    /\ keyPc' = "idle"
    /\ cfgA' = NoConfig
    /\ cfgB' = NoConfig
    /\ keyA' = <<>>
    /\ keyB' = <<>>

PoolKeyNext ==
    \/ keyPc # "done" /\ \E cfg \in KeyConfigs : PoolKeyCall(cfg)
    \/ PoolKeyReturn

\* ========================================================= move_to_old_folder

\* the last numbered backup name the loop tries (line 1810)
LastBackup == 999

\* how many slots next to each end of the numbering the listings vary in
SlotEdge == 2

\* the name in cache/old of slot i: the file name itself for 0, the file name
\* with ".bak" and i in three digits after it otherwise (line 1811)
BakName(i) ==
    IF i = 0 THEN <<"name">>
    ELSE <<"name", ".bak", i \div 100, (i \div 10) % 10, i % 10>>

EdgeSlots == (0..SlotEdge) \cup ((LastBackup - SlotEdge)..LastBackup)

\* the listings of cache/old: the slots up to k taken, but for some at the edges
Listings ==
    {{BakName(i) : i \in (0..k) \ holes} : k \in {-1} \cup EdgeSlots, holes \in SUBSET EdgeSlots}

\* dest after the iterations lo..hi of the loop of lines 1810-1816: each
\* iteration sets dest to the name of its slot and breaks when that name is
\* free, so dest is the first free name, or the name of hi when none is free
\* (the iterations are split in halves to keep the evaluation shallow)
RECURSIVE BakProbe(_, _, _)
BakProbe(lo, hi, names) ==
    IF lo = hi THEN BakName(lo)
    ELSE LET mid == (lo + hi) \div 2
             first == BakProbe(lo, mid, names)
         IN  IF first \notin names THEN first ELSE BakProbe(mid + 1, hi, names)

\* mutant of BackupDest: the numbering is not probed, the first backup name is taken
BackupDestFirstNumber(names) ==
    IF BakName(0) \notin names THEN BakName(0) ELSE BakName(1)

\* the destination move_to_old_folder chooses (lines 1805-1819)
BackupDest(names) ==
    IF BakName(0) \notin names THEN BakName(0) ELSE BakProbe(1, LastBackup, names)

BakInit ==
    /\ bakPc = "idle"
    /\ old_names = {}
    /\ bak_dest = <<>>
    /\ bak_result = TRUE

\* the content of cache/old before the call
BakList(names) ==
    /\ bakPc = "idle"
    /\ bakPc' = "listed"
    /\ old_names' = names
    /\ UNCHANGED <<bak_dest, bak_result>>

\* move_to_old_folder; exists: the source exists; out: "dir_error" (the folder
\* cannot be made), "rename_error" or "ok"
MoveToOldFolder(exists, out) ==
    /\ bakPc = "listed"
    /\ bakPc' = "done"
    /\ IF ~exists THEN /\ bak_result' = TRUE
                        /\ UNCHANGED <<old_names, bak_dest>>
       ELSE IF out # "ok" THEN /\ bak_result' = FALSE
                               /\ UNCHANGED <<old_names, bak_dest>>
       ELSE /\ bak_dest' = BackupDest(old_names)
            /\ old_names' = old_names \cup {BackupDest(old_names)}
            /\ bak_result' = TRUE

BackupNext ==
    \/ bakPc = "idle" /\ \E names \in Listings : BakList(names)
    \/ \E exists \in BOOLEAN, out \in {"dir_error", "rename_error", "ok"} :
          MoveToOldFolder(exists, out)

\* ========================================================= poisoned mutexes

\* the owner list of the entry of a key has a mutex of its own
OwnerLock(key) == IF key = "k1" THEN "instance_ids k1" ELSE "instance_ids k2"

Locks == {"instances", "controllers", "ptr_to_key"} \cup {OwnerLock(k) : k \in Keys}

\* what an operation hands its caller: an error, a value, absent or unit
Outcome(op, hit, result) == [op |-> op, hit |-> hit, result |-> result]

LockInit ==
    /\ poisoned = {}
    /\ outcome = Outcome("none", {}, "unit")

\* a thread panicked while it held the mutex
PoisonLock(l) ==
    /\ l \notin poisoned
    /\ \A k \in Keys : l = OwnerLock(k) => k \in DOMAIN controllers
    /\ poisoned' = poisoned \cup {l}
    /\ outcome' = Outcome("panic", {}, "unit")
    /\ UNCHANGED <<poolVars, instVars>>

\* the pool's history of a call that changed nothing
PoolUntouched(op, key, id) ==
    /\ last' = [op |-> op, key |-> key, inst |-> id, pre |-> RefCount(key), ret |-> None,
                ownersAfter |-> Owners(key)]
    /\ UNCHANGED <<controllers, ptr_to_key, live, destroyBalance, paired>>

\* ControllerPool::get with the mutexes as they are: lock().ok()? returns None
\* for a poisoned forward map, acquire skips a poisoned owner list
LockedGet(key, id) ==
    LET hit == poisoned \cap ({"controllers"} \cup
                   IF key \in DOMAIN controllers /\ "controllers" \notin poisoned
                   THEN {OwnerLock(key)} ELSE {})
    IN  /\ RefCount(key) < MaxRef
        /\ IF "controllers" \in poisoned
           THEN /\ PoolUntouched("get", key, id)
                /\ outcome' = Outcome("get", hit, "absent")
           ELSE IF OwnerLock(key) \in hit
           THEN /\ controllers' = [controllers EXCEPT ![key].ref_count = @ + 1]
                /\ last' = [op |-> "get", key |-> key, inst |-> id, pre |-> RefCount(key),
                            ret |-> controllers[key].controller,
                            ownersAfter |-> Owners(key)]
                /\ outcome' = Outcome("get", hit, "value")
                /\ UNCHANGED <<ptr_to_key, live, destroyBalance, paired>>
           ELSE /\ PoolGet(key, id)
                /\ outcome' = Outcome("get", hit, IF key \in DOMAIN controllers
                                                  THEN "value" ELSE "absent")
        /\ UNCHANGED <<poisoned, instVars>>

\* ControllerPool::insert: each map is written only if its lock() is Ok; the
\* new entry's owner list has a new mutex
LockedInsert(key, c, id) ==
    LET hit == poisoned \cap {"controllers", "ptr_to_key"}
    IN  /\ c \notin live
        /\ IF hit = {}
           THEN PoolInsert(key, c, id)
           ELSE /\ controllers' = IF "controllers" \in hit THEN controllers
                                  ELSE MapPut(controllers, key,
                                          [PooledNew(c) EXCEPT !.instance_ids = Append(@, id)])
                /\ ptr_to_key' = IF "ptr_to_key" \in hit THEN ptr_to_key
                                 ELSE MapPut(ptr_to_key, c, key)
                /\ live' = IF "controllers" \in hit THEN live ELSE live \cup {c}
                /\ last' = [op |-> "insert", key |-> key, inst |-> id,
                            pre |-> RefCount(key), ret |-> None,
                            ownersAfter |-> IF "controllers" \in hit THEN Owners(key)
                                            ELSE {id}]
                /\ UNCHANGED <<destroyBalance, paired>>
        /\ poisoned' = IF "controllers" \in hit THEN poisoned
                       ELSE poisoned \ {OwnerLock(key)}
        /\ outcome' = Outcome("insert", hit, "unit")
        /\ UNCHANGED instVars

\* ControllerPool::release: lock().ok()? returns None for a poisoned forward
\* map; PooledController::release skips a poisoned owner list; the reverse
\* mapping is removed only if its lock() is Ok
LockedRelease(key, id) ==
    LET present == key \in DOMAIN controllers /\ "controllers" \notin poisoned
        should_remove == present /\ PooledReleaseShouldDestroy(controllers[key])
        hit == poisoned \cap ({"controllers"}
                              \cup (IF present THEN {OwnerLock(key)} ELSE {})
                              \cup (IF should_remove THEN {"ptr_to_key"} ELSE {}))
    IN  /\ IF hit = {}
           THEN PoolRelease(key, id)
           ELSE IF "controllers" \in poisoned
           THEN PoolUntouched("release", key, id)
           ELSE LET after == IF OwnerLock(key) \in hit
                             THEN [controllers[key] EXCEPT !.ref_count = @ - 1]
                             ELSE PooledRelease(controllers[key], id)
                    ret == IF should_remove THEN controllers[key].controller ELSE None
                IN  /\ controllers' = IF should_remove THEN MapDel(controllers, key)
                                      ELSE [controllers EXCEPT ![key] = after]
                    /\ ptr_to_key' = IF should_remove /\ "ptr_to_key" \notin hit
                                     THEN MapDel(ptr_to_key, controllers[key].controller)
                                     ELSE ptr_to_key
                    /\ live' = live \ {ret}
                    /\ last' = [op |-> "release", key |-> key, inst |-> id,
                                pre |-> RefCount(key), ret |-> ret,
                                ownersAfter |-> Range(after.instance_ids)]
                    /\ UNCHANGED <<destroyBalance, paired>>
        /\ poisoned' = IF should_remove THEN poisoned \ {OwnerLock(key)} ELSE poisoned
        /\ outcome' = Outcome("release", hit,
                              IF should_remove THEN "value" ELSE "absent")
        /\ UNCHANGED instVars

\* maa_create_instance and maa_destroy_instance: lock().map_err(..)? returns
\* the error of a poisoned instance map
LockedInstance(op, id) ==
    /\ IF "instances" \in poisoned
       THEN Fail(op, id)
       ELSE IF op = "create" THEN CreateInstance(id) ELSE DestroyInstance(id)
    /\ outcome' = Outcome(op, poisoned \cap {"instances"},
                          IF "instances" \in poisoned THEN "error" ELSE "unit")
    /\ UNCHANGED <<poisoned, poolVars>>

\* the pool and the instance map of the given keys, handles and ids, and panics
PoisonNext(keys, ptrs, ids) ==
    \/ \E l \in {"instances", "controllers", "ptr_to_key"} \cup {OwnerLock(k) : k \in keys} :
          PoisonLock(l)
    \/ \E key \in keys, id \in ids : LockedGet(key, id)
    \/ \E key \in keys, c \in ptrs, id \in ids : LockedInsert(key, c, id)
    \/ \E key \in keys, id \in ids : LockedRelease(key, id)
    \/ \E op \in {"create", "destroy"}, id \in ids : LockedInstance(op, id)

\* ============================================== the lock scopes of commands

CmdThreads == {"t1", "t2"}

\* MAA_LIBRARY, MaaState.instances, and the pool's maps and an owner list
Mutexes == {"library", "instances", "controllers", "ptr_to_key", "instance_ids"}

Acq(l) == <<"lock", l>>

Rel(l) == <<"unlock", l>>

\* the awaited spawn_blocking of the agent connect (lines 1394-1399)
Handshake == <<"await", "connect">>

\* a sync command that takes the library guard and, inside its scope, the
\* instance map: connect, load_resource, run_task, stop_task, stop_agent, ..
\* (lines 564-714, 763-784, 861-931)
GuardedCommand ==
    <<Acq("library"), Acq("instances"), Rel("instances"), Rel("library")>>

\* maa_create_instance (lines 516-529)
CreateInstanceLocks == <<Acq("instances"), Rel("instances")>>

\* maa_destroy_instance: the removed runtime is dropped at the end of the
\* statement, under the instance map's guard, and its Drop locks the library
\* (lines 537-538, 185-186); removed: the id was in the map
DestroyInstanceLocks(removed) ==
    <<Acq("instances")>>
    \o (IF removed THEN <<Acq("library"), Rel("library")>> ELSE <<>>)
    \o <<Rel("instances")>>

\* mutant of HandshakeLocks: the library guard taken for the timeout is kept
\* over the await
HandshakeLocksHeld(connected) ==
    <<Acq("library"), Handshake, Acq("instances"), Rel("instances"), Rel("library")>>

\* maa_start_tasks from the timeout to the stored agent: the guard of the
\* timeout scope (1378-1388), the await (1394-1399), then the scope of the
\* failed connect (1401-1414) or of the store (1419-1425)
HandshakeLocks(connected) ==
    <<Acq("library"), Rel("library"), Handshake>>
    \o (IF connected THEN <<Acq("instances"), Rel("instances")>>
        ELSE <<Acq("library"), Acq("instances"), Rel("instances"), Rel("library")>>)

\* maa_start_tasks (lines 1159-1476); agent: an agent is configured;
\* connected: its connect succeeds
StartTasksLocks(agent, connected) ==
    GuardedCommand
    \o (IF agent THEN <<Acq("library"), Rel("library")>> \o HandshakeLocks(connected)
        ELSE <<>>)
    \o (IF agent /\ ~connected THEN <<>>
        ELSE <<Acq("library"), Rel("library"), Acq("instances"), Rel("instances")>>)

\* ControllerPool::get (types.rs 223-236) and find_key_by_instance (291-301)
PoolGetLocks ==
    <<Acq("controllers"), Acq("instance_ids"), Rel("instance_ids"), Rel("controllers")>>

\* ControllerPool::insert (types.rs 239-256)
PoolInsertLocks ==
    <<Acq("controllers"), Rel("controllers"), Acq("ptr_to_key"), Rel("ptr_to_key")>>

\* ControllerPool::release (types.rs 260-288); removed: the count reached zero
PoolReleaseLocks(removed) ==
    <<Acq("controllers"), Acq("instance_ids"), Rel("instance_ids")>>
    \o (IF removed THEN <<Acq("ptr_to_key"), Rel("ptr_to_key")>> ELSE <<>>)
    \o <<Rel("controllers")>>

\* ControllerPool::find_instances_by_controller_ptr (types.rs 305-332)
PoolFindLocks ==
    <<Acq("ptr_to_key"), Rel("ptr_to_key"),
      Acq("controllers"), Acq("instance_ids"), Rel("instance_ids"), Rel("controllers")>>

\* the commands, each with the steps it makes
Programs ==
    {[cmd |-> "guarded", steps |-> GuardedCommand],
     [cmd |-> "create_instance", steps |-> CreateInstanceLocks],
     [cmd |-> "pool_get", steps |-> PoolGetLocks],
     [cmd |-> "pool_insert", steps |-> PoolInsertLocks],
     [cmd |-> "pool_find", steps |-> PoolFindLocks]}
    \cup {[cmd |-> "destroy_instance", steps |-> DestroyInstanceLocks(r)] : r \in BOOLEAN}
    \cup {[cmd |-> "pool_release", steps |-> PoolReleaseLocks(r)] : r \in BOOLEAN}
    \cup {[cmd |-> "start_tasks", steps |-> StartTasksLocks(a, c)] : a, c \in BOOLEAN}

ThrIdle == [cmd |-> "none", steps |-> <<>>]

ThrInit ==
    /\ holder = [l \in Mutexes |-> "free"]
    /\ thr = [t \in CmdThreads |-> ThrIdle]

\* a command is dispatched to a thread
ThrBegin(t, program) ==
    /\ thr[t] = ThrIdle
    /\ thr' = [thr EXCEPT ![t] = program]
    /\ UNCHANGED holder

\* Mutex::lock: the thread goes on when the mutex is free
ThrLock(t) ==
    /\ thr[t].steps # <<>>
    /\ Head(thr[t].steps)[1] = "lock"
    /\ holder[Head(thr[t].steps)[2]] = "free"
    /\ holder' = [holder EXCEPT ![Head(thr[t].steps)[2]] = t]
    /\ thr' = [thr EXCEPT ![t].steps = Tail(@)]

\* the guard is dropped
ThrUnlock(t) ==
    /\ thr[t].steps # <<>>
    /\ Head(thr[t].steps)[1] = "unlock"
    /\ holder' = [holder EXCEPT ![Head(thr[t].steps)[2]] = "free"]
    /\ thr' = [thr EXCEPT ![t].steps = Tail(@)]

\* the awaited connect returns
ThrResume(t) ==
    /\ thr[t].steps # <<>>
    /\ Head(thr[t].steps)[1] = "await"
    /\ thr' = [thr EXCEPT ![t].steps = Tail(@)]
    /\ UNCHANGED holder

\* the command returns
ThrReturn(t) ==
    /\ thr[t] # ThrIdle
    /\ thr[t].steps = <<>>
    /\ thr' = [thr EXCEPT ![t] = ThrIdle]
    /\ UNCHANGED holder

ThreadsNext ==
    \/ \E t \in CmdThreads : thr[t] = ThrIdle /\ \E program \in Programs : ThrBegin(t, program)
    \/ \E t \in CmdThreads : ThrLock(t)
    \/ \E t \in CmdThreads : ThrUnlock(t)
    \/ \E t \in CmdThreads : ThrResume(t)
    \/ \E t \in CmdThreads : ThrReturn(t)

Init ==
    /\ PoolInit /\ InstInit /\ DownInit /\ SanInit /\ FnInit /\ KeyInit /\ BakInit /\ LockInit
    /\ ThrInit

Next ==
    \/ PoolNext /\ UNCHANGED <<instVars, downVars, sanVars, fnVars, keyVars, bakVars, lockVars, thrVars>>
    \/ InstNext(InstanceIds, Configs) /\ UNCHANGED <<poolVars, downVars, sanVars, fnVars, keyVars, bakVars, lockVars, thrVars>>
    \/ DownloadNext /\ UNCHANGED <<poolVars, instVars, sanVars, fnVars, keyVars, bakVars, lockVars, thrVars>>
    \/ SanitizeNext /\ UNCHANGED <<poolVars, instVars, downVars, fnVars, keyVars, bakVars, lockVars, thrVars>>
    \/ FilenameNext /\ UNCHANGED <<poolVars, instVars, downVars, sanVars, keyVars, bakVars, lockVars, thrVars>>
    \/ PoolKeyNext /\ UNCHANGED <<poolVars, instVars, downVars, sanVars, fnVars, bakVars, lockVars, thrVars>>
    \/ BackupNext /\ UNCHANGED <<poolVars, instVars, downVars, sanVars, fnVars, keyVars, lockVars, thrVars>>
    \/ PoisonNext(Keys, Ptrs, InstanceIds)
          /\ UNCHANGED <<downVars, sanVars, fnVars, keyVars, bakVars, thrVars>>
    \/ ThreadsNext
          /\ UNCHANGED <<poolVars, instVars, downVars, sanVars, fnVars, keyVars, bakVars, lockVars>>

Spec == Init /\ [][Next]_vars

SpecPool == Init /\ [][PoolNext /\ UNCHANGED <<instVars, downVars, sanVars, fnVars, keyVars, bakVars, lockVars, thrVars>>]_vars

\* every command that builds up or tears down the handles of one instance
SpecInst ==
    Init /\ [][TeardownNext({"i1"}, Configs \ {Win32Config}, {1})
               /\ UNCHANGED <<poolVars, downVars, sanVars, fnVars, keyVars, bakVars, lockVars, thrVars>>]_vars

\* two instances, their creation, connection, loading and destruction
SpecFleet ==
    Init /\ [][FleetNext(InstanceIds, Configs) /\ UNCHANGED <<poolVars, downVars, sanVars, fnVars, keyVars, bakVars, lockVars, thrVars>>]_vars

\* two download_file calls and cancel_download at a time, on one save path
SpecDownload == Init /\ [][DownloadNext /\ UNCHANGED <<poolVars, instVars, sanVars, fnVars, keyVars, bakVars, lockVars, thrVars>>]_vars

\* the steps of the download_file call of t after it has taken its session id
DownloadSteps(t) ==
    \/ DownloadResetFlag(t)
    \/ \E out \in {"http_error", "create_error", "ok"} : DownloadCreate(t, out)
    \/ \E item \in ChunkSizes, ok \in BOOLEAN : DownloadChunk(t, item, ok)
    \/ \E ok \in BOOLEAN : DownloadWrite(t, ok)
    \/ DownloadFinalCheck(t)
    \/ \E ok \in BOOLEAN : DownloadFlush(t, ok)
    \/ \E moved \in BOOLEAN : DownloadBackup(t, moved)
    \/ DownloadRename(t)

\* the downloads with a scheduler that runs every started call on, a stream
\* that yields its next item or ends, and a cancel call that runs to its end
SpecDownloadFair ==
    /\ SpecDownload
    /\ \A t \in Threads : WF_downVars(DownloadSteps(t))
    /\ WF_downVars(CancelRemoveTemp)

\* the pool of one key and the instance map, with mutexes that get poisoned
SpecPoison ==
    Init /\ [][PoisonNext({"k1"}, {1, 2}, {"i1"})
               /\ UNCHANGED <<downVars, sanVars, fnVars, keyVars, bakVars, thrVars>>]_vars

\* two threads that run commands and take the mutexes in the commands' order
SpecThreads ==
    Init /\ [][ThreadsNext /\ UNCHANGED <<poolVars, instVars, downVars, sanVars, fnVars,
                                          keyVars, bakVars, lockVars>>]_vars

\* move_to_old_folder on every listing of cache/old
SpecBackup ==
    Init /\ [][BackupNext /\ UNCHANGED <<poolVars, instVars, downVars, sanVars, fnVars, keyVars, lockVars, thrVars>>]_vars

\* sanitize_filename applied to every candidate
SpecSanitize == Init /\ [][SanitizeNext /\ UNCHANGED <<poolVars, instVars, downVars, fnVars, keyVars, bakVars, lockVars, thrVars>>]_vars

\* run_task, start_tasks without an agent and stop_task on one instance that
\* is connected, loaded, reconnected and torn down
SpecTasker ==
    Init /\ [][TaskerNext({"i1"}, {AdbConfig("1")}, {1})
               /\ UNCHANGED <<poolVars, downVars, sanVars, fnVars, keyVars, bakVars, lockVars, thrVars>>]_vars

\* batches of one and two items posted on one instance
SpecBatch ==
    Init /\ [][BatchNext({"i1"}, {AdbConfig("1")}, EntryCounts)
               /\ UNCHANGED <<poolVars, downVars, sanVars, fnVars, keyVars, bakVars, lockVars, thrVars>>]_vars

\* the filename resolution of download_file on every response, on either target
SpecFilename ==
    Init /\ [][FilenameNext /\ UNCHANGED <<poolVars, instVars, downVars, sanVars, keyVars, bakVars, lockVars, thrVars>>]_vars

\* pool_key on every pair of configurations
SpecPoolKey ==
    Init /\ [][PoolKeyNext /\ UNCHANGED <<poolVars, instVars, downVars, sanVars, fnVars, bakVars, lockVars, thrVars>>]_vars

\* ------------------------------------------------------------------ claims

\* C1: release returns the handle on exactly the calls that take the refcount
\* from 1 to 0, so handles handed out for destroy equal the zero-crossings, and
\* get returns a handle only for a present entry (refcount at least 1).
C1_ReleaseAtZeroCrossing ==
    /\ destroyBalance = 0
    /\ last.op = "release" => ((last.ret # None) <=> (last.pre = 1))
    /\ last.op = "get" => ((last.ret # None) <=> (last.pre >= 1))
    /\ \A k \in DOMAIN controllers : controllers[k].ref_count >= 1

C1_Witness ==
    /\ last.op = "release"
    /\ last.ret # None
    /\ last.key \notin DOMAIN controllers
    /\ \E k \in DOMAIN controllers : controllers[k].ref_count = 2

\* C2 as claimed: under arbitrary instance ids no entry is handed out for destroy
\* with owners left, and no entry stays pooled with an empty owner set.
C2_ZeroIffNoOwners ==
    /\ \A k \in DOMAIN controllers : Owners(k) # {}
    /\ (last.op = "release" /\ last.ret # None) => last.ownersAfter = {}

\* C2 amended: while every get is by an instance that is not yet an owner and every
\* release by an instance that is one, refcount equals the number of owners, so the
\* entry is removed exactly when its owner set becomes empty.
C2_ZeroIffNoOwnersPaired ==
    paired =>
        /\ \A k \in DOMAIN controllers :
              /\ controllers[k].ref_count = Cardinality(Owners(k))
              /\ Owners(k) # {}
        /\ (last.op = "release" /\ last.ret # None) => last.ownersAfter = {}
        /\ (last.op = "release" /\ last.pre >= 1 /\ last.ownersAfter = {})
              => last.ret # None

C2_Witness ==
    /\ paired
    /\ last.op = "release"
    /\ last.ret # None
    /\ last.ownersAfter = {}
    /\ \E k \in DOMAIN controllers : Cardinality(Owners(k)) = 2

\* C3 as claimed: two instances connected with the identical configuration share
\* one native controller handle, pooled with refcount 2 and owned by both.
C3_SharedControllerForIdenticalConfig ==
    \A a \in DOMAIN instances, b \in DOMAIN instances :
        (/\ a # b
         /\ instances[a].controller # None
         /\ instances[b].controller # None
         /\ handles[instances[a].controller].cfg = handles[instances[b].controller].cfg)
        => /\ instances[a].controller = instances[b].controller
           /\ \E k \in DOMAIN controllers :
                 /\ controllers[k].controller = instances[a].controller
                 /\ controllers[k].ref_count = 2
                 /\ Owners(k) = {a, b}

\* the native destroy calls a command made on handle h
DestroysOf(calls, h) ==
    Cardinality({n \in DOMAIN calls : calls[n][1] \in DestroyCalls /\ calls[n][2] = h})

HeldBy(rt) ==
    {rt.resource, rt.controller, rt.tasker, rt.agent_client, rt.agent_child} \ {None}

\* C4: destroy always succeeds and leaves the id absent; on an id that is not in
\* the map it changes neither the map nor any handle and makes no native call; on
\* a known id it makes the teardown call of every held handle exactly once, so a
\* second destroy of the same id (then unknown) makes none.
C4_DestroyIdempotent ==
    [][lastCmd'.cmd = "destroy" =>
         LET id == lastCmd'.id
             calls == lastCmd'.calls
         IN  /\ lastCmd'.ok
             /\ id \notin DOMAIN instances'
             /\ ~Known(id) => /\ calls = <<>>
                              /\ instances' = instances
                              /\ handles' = handles
             /\ Known(id) =>
                   /\ \A h \in HeldBy(instances[id]) : DestroysOf(calls, h) = 1
                   /\ \A n \in DOMAIN calls : calls[n][2] \in HeldBy(instances[id])
                   /\ instances[id].agent_client # None =>
                         Cardinality({n \in DOMAIN calls :
                                        calls[n][1] = "agent_client_disconnect"}) = 1
             /\ (lastCmd.cmd = "destroy" /\ lastCmd.id = id) => calls = <<>>
      ]_vars

C4_Witness ==
    /\ lastCmd.cmd = "destroy"
    /\ "i1" \notin DOMAIN instances
    /\ {lastCmd.calls[n][1] : n \in DOMAIN lastCmd.calls} =
          {"agent_client_disconnect", "agent_client_destroy", "child_kill",
           "tasker_destroy", "controller_destroy", "resource_destroy"}

\* the teardown order C5 claims, the controller being released in the pool
ClaimedTeardown ==
    <<"agent_client_disconnect", "agent_client_destroy", "child_kill", "tasker_destroy",
      "controller_pool_release", "resource_destroy">>

ClaimedRank(name) == CHOOSE n \in DOMAIN ClaimedTeardown : ClaimedTeardown[n] = name

\* C5 as claimed: the calls of a destroy are the claimed steps in the claimed
\* order; the controller is released in the pool and never destroyed.
C5_TeardownOrderReleasesController ==
    lastCmd.cmd = "destroy" =>
        /\ \A n \in DOMAIN lastCmd.calls : lastCmd.calls[n][1] \in Range(ClaimedTeardown)
        /\ \A m \in DOMAIN lastCmd.calls, n \in DOMAIN lastCmd.calls :
              m < n => ClaimedRank(lastCmd.calls[m][1]) < ClaimedRank(lastCmd.calls[n][1])

\* a step of t out of the streaming loop's await: its cancellation check
CheckStep(t) == dl[t].pc = "stream" /\ dl'[t] # dl[t]

\* C6 as claimed: a session aborts on the flag only if a cancel set it after the
\* session's start (no abort from a cancel completed before), and a cancel made
\* after the session's start completed, while it is the current epoch, aborts it
\* at its next check.
C6_CancelEpochScoped ==
    [][\A t \in Threads :
          /\ (CheckStep(t) /\ epoch = dl[t].sid /\ Cancelled(dl'[t].result))
                => cancelAfter[t] # "none"
          /\ (CheckStep(t) /\ epoch = dl[t].sid /\ cancelAfter[t] = "current")
                => Cancelled(dl'[t].result)
      ]_vars

\* C7: a session in the streaming loop that a newer session has superseded aborts
\* at its next check whatever the cancel flag holds: the temp path is removed, the
\* result is the cancellation error, the destination is untouched, and the session
\* never goes on to finalization and rename.
C7_SupersededAborts ==
    [][\A t \in Threads :
          (dl[t].pc \in {"stream", "write"} /\ epoch # dl[t].sid) =>
              /\ dl'[t].pc \in {"stream", "write", "idle"}
              /\ dl'[t].result # "ok"
              /\ CheckStep(t) => /\ Cancelled(dl'[t].result)
                                 /\ dl'[t].pc = "idle"
                                 /\ "temp" \notin DOMAIN dir'
                                 /\ "dest" \in DOMAIN dir' <=> "dest" \in DOMAIN dir
                                 /\ "dest" \in DOMAIN dir => dir'["dest"] = dir["dest"]
      ]_vars

C7_Witness ==
    \E t \in Threads :
        /\ dl[t].pc = "idle"
        /\ dl[t].result = "cancelled_epoch"
        /\ dl[t].downloaded > 0
        /\ ~cancelled
        /\ "dest" \in DOMAIN dir /\ data[dir["dest"]] = PreviousFile

CompleteFiles == {PreviousFile} \cup {Body(sid, 1, BodyLen(sid)) : sid \in 1..MaxSessions}

\* C8 as claimed: the destination is absent, the complete previous file or the
\* complete body of a session; partial content is at the staging path only.
C8_DestinationNeverPartial ==
    "dest" \in DOMAIN dir => data[dir["dest"]] \in CompleteFiles

\* C9 as claimed: a download that returns success leaves the destination equal to
\* the chunks it received, in order, and its downloaded count is the file length.
C9_SuccessLeavesConcatenation ==
    [][\A t \in Threads :
          (dl[t].pc = "rename" /\ dl'[t].result = "ok") =>
              /\ "dest" \in DOMAIN dir'
              /\ data'[dir'["dest"]] = Body(dl[t].sid, 1, dl[t].downloaded)
              /\ dl'[t].downloaded = Len(data'[dir'["dest"]])
      ]_vars

\* a name without directory part that has a dot, is not "." and does not start
\* with ".."
PlainNameWithExtension(s) ==
    /\ HasDot(s)
    /\ s # <<".">>
    /\ ~StartsWithDotDot(s)
    /\ \A i \in 1..Len(s) : ~IsSeparator(s[i])

\* C10 as claimed: every candidate with a traversal prefix is rejected, as are the
\* empty name, ".", ".." and names without a dot; a plain name with an extension
\* is returned unchanged.
C10_RejectsTraversalPrefixed ==
    sanPc = "done" =>
        /\ StartsWithDotDot(filename) => ~sanitized.some
        /\ filename \in {<<>>, <<".">>, <<".", ".">>} => ~sanitized.some
        /\ ~HasDot(filename) => ~sanitized.some
        /\ PlainNameWithExtension(filename) => sanitized = SomeName(filename)

\* C10 amended: the sanitizer keeps only the part after the last separator, so a
\* traversal-prefixed path with a good last component is accepted as that
\* component; a result never holds a separator nor starts with "..", and has a
\* dot; candidates without a separator that are empty, ".", "..", start with ".."
\* or have no dot are rejected, and a plain name with an extension is unchanged.
C10_StripsDirectoriesThenRejects ==
    sanPc = "done" =>
        /\ sanitized.some =>
              /\ \A i \in 1..Len(sanitized.value) : ~IsSeparator(sanitized.value[i])
              /\ ~StartsWithDotDot(sanitized.value)
              /\ HasDot(sanitized.value)
              /\ Len(sanitized.value) <= Len(filename)
              /\ sanitized.value =
                    SubSeq(filename, Len(filename) - Len(sanitized.value) + 1, Len(filename))
              /\ Len(sanitized.value) < Len(filename) =>
                    IsSeparator(filename[Len(filename) - Len(sanitized.value)])
        /\ (\A i \in 1..Len(filename) : ~IsSeparator(filename[i])) =>
              /\ StartsWithDotDot(filename) => ~sanitized.some
              /\ filename \in {<<>>, <<".">>, <<".", ".">>} => ~sanitized.some
              /\ ~HasDot(filename) => ~sanitized.some
              /\ PlainNameWithExtension(filename) => sanitized = SomeName(filename)
        /\ filename = EvilExe => sanitized = SomeName(<<"e", "v", "i", "l", ".", "e", "x", "e">>)
        /\ filename = ReportPdf => sanitized = SomeName(ReportPdf)
        /\ filename = NoExt => ~sanitized.some

C10_Witness ==
    /\ sanPc = "done"
    /\ filename = EvilExe
    /\ sanitized.some
    /\ sanitized.value = <<"e", "v", "i", "l", ".", "e", "x", "e">>

\* the path lies directly in the directory of the caller's save path
DirectlyInSaveParent(path, windows) ==
    LET prefix == SaveParent \o <<MainSeparator(windows)>>
    IN  /\ Len(path) > Len(prefix)
        /\ SubSeq(path, 1, Len(prefix)) = prefix
        /\ \A i \in (Len(prefix) + 1)..Len(path) : ~IsSeparator(path[i])

\* C11: whatever the Content-Disposition header and the final URL are, the
\* destination and the staging path of a download lie directly in the directory
\* of the caller's save path, and a network-derived name that is used has no
\* separator, is not "." or "..", does not start with "..", has a dot, and is
\* one the sanitizer accepts.
C11_WritesDirectlyInSaveDirectory ==
    fnPc = "done" =>
        /\ DirectlyInSaveParent(actual_save_path, target_windows)
        /\ DirectlyInSaveParent(temp_path, target_windows)
        /\ detected_filename.some =>
            LET name == detected_filename.value
            IN  /\ \A i \in 1..Len(name) : ~IsSeparator(name[i])
                /\ name # <<".">> /\ name # <<".", ".">>
                /\ ~StartsWithDotDot(name)
                /\ HasDot(name)
                /\ SanitizeFilename(name) = detected_filename

\* the fields in which two configurations of one variant differ
DifferingFields(a, b) == {f \in DOMAIN a : a[f] # b[f]}

WithDefaults(cfg) ==
    IF cfg.type = "Gamepad"
    THEN [cfg EXCEPT !.gamepad_type = SomeName(UnwrapOr(cfg.gamepad_type, Xbox360)),
                     !.screencap_method =
                         [some |-> TRUE, value |-> UnwrapOr(cfg.screencap_method, 0)]]
    ELSE cfg

C13_KeyInjective ==
    keyPc = "done" =>
        (WithDefaults(cfgA) # WithDefaults(cfgB) => keyA # keyB)

\* how many times an instance id is in an owner list
Occurrences(ids, id) == Cardinality({n \in DOMAIN ids : ids[n] = id})

\* C14: a get on a present entry adds exactly one to the refcount on every
\* call, leaves the caller in the owner list exactly once and returns the
\* entry's handle; a get on an absent fingerprint returns nothing and leaves
\* the forward and the reverse map as they were.
C14_GetCountsEveryCallOwnsOnce ==
    [][last'.op = "get" =>
        IF last'.key \in DOMAIN controllers
        THEN /\ controllers'[last'.key].ref_count = controllers[last'.key].ref_count + 1
             /\ Occurrences(controllers'[last'.key].instance_ids, last'.inst) = 1
             /\ last'.ret = controllers[last'.key].controller
             /\ last'.ret # None
             /\ controllers'[last'.key].controller = controllers[last'.key].controller
             /\ DOMAIN controllers' = DOMAIN controllers
             /\ ptr_to_key' = ptr_to_key
        ELSE /\ last'.ret = None
             /\ controllers' = controllers
             /\ ptr_to_key' = ptr_to_key]_vars

\* a get by an instance that already owned the entry was answered
C14_Witness ==
    /\ last.op = "get"
    /\ last.ret # None
    /\ last.pre >= 2
    /\ RefCount(last.key) = last.pre + 1
    /\ Cardinality(Owners(last.key)) < RefCount(last.key)

\* C15: an insert leaves the fingerprint's entry holding the inserted handle
\* with refcount 1 and the inserting instance as its only owner, maps the
\* handle's address back to the fingerprint, and leaves the entries of all
\* other fingerprints as they were.
C15_InsertStartsAtOneOwner ==
    [][last'.op = "insert" =>
        /\ last'.key \in DOMAIN controllers'
        /\ live' \ live = {controllers'[last'.key].controller}
        /\ controllers'[last'.key].ref_count = 1
        /\ controllers'[last'.key].instance_ids = <<last'.inst>>
        /\ controllers'[last'.key].controller \in DOMAIN ptr_to_key'
        /\ ptr_to_key'[controllers'[last'.key].controller] = last'.key
        /\ \A k \in Keys \ {last'.key} :
            /\ k \in DOMAIN controllers' <=> k \in DOMAIN controllers
            /\ k \in DOMAIN controllers => controllers'[k] = controllers[k]]_vars

\* an insert was made while another fingerprint had an entry with two references
C15_Witness ==
    /\ last.op = "insert"
    /\ RefCount(last.key) = 1
    /\ Owners(last.key) = {last.inst}
    /\ \E k \in Keys \ {last.key} : RefCount(k) = 2

\* C16: in every state reached by insert, get and release the lookup by
\* address returns the owners of the entry that holds the handle of that
\* address and nothing for an address no entry holds, and the reverse map has
\* no address under a fingerprint whose entry holds another handle.
C16_ReverseLookupMatchesEntries ==
    /\ \A ptr \in Ptrs :
        LET holders == {k \in DOMAIN controllers : controllers[k].controller = ptr}
        IN  IF holders = {} THEN FindInstancesByControllerPtr(ptr) = <<>>
            ELSE \A k \in holders :
                    Range(FindInstancesByControllerPtr(ptr)) = Owners(k)
    /\ \A ptr \in DOMAIN ptr_to_key :
        ptr_to_key[ptr] \in DOMAIN controllers
            => controllers[ptr_to_key[ptr]].controller = ptr

\* C17: create on an unknown id adds a runtime without handles and without
\* recorded task ids; create on a known id succeeds, leaves every field of the
\* runtime as it was and makes no native call.
C17_CreateIdempotent ==
    [][lastCmd'.cmd = "create" =>
        LET id == lastCmd'.id
        IN  /\ lastCmd'.ok
            /\ lastCmd'.calls = <<>>
            /\ handles' = handles
            /\ DOMAIN instances' = DOMAIN instances \cup {id}
            /\ \A i \in DOMAIN instances : instances'[i] = instances[i]
            /\ ~Known(id) => /\ HeldBy(instances'[id]) = {}
                             /\ instances'[id].task_ids = <<>>]_vars

\* create was called on an instance that held a controller and a resource
C17_Witness ==
    /\ lastCmd.cmd = "create"
    /\ Known(lastCmd.id)
    /\ instances[lastCmd.id].controller # None
    /\ instances[lastCmd.id].resource # None

\* the positions in a command's calls of a call on a handle
CallsAt(calls, name, h) == {n \in DOMAIN calls : calls[n] = Call(name, h)}

\* C18: a connect that succeeds on an instance holding a controller destroys
\* that controller exactly once, before it stores the new one, and leaves the
\* instance holding the new one, which is not destroyed; no controller handle
\* ever receives a second destroy call.
C18_ReplaceDestroysOldOnce ==
    /\ [][(lastCmd'.cmd = "connect" /\ lastCmd'.ok) =>
            LET id == lastCmd'.id
                calls == lastCmd'.calls
                old == instances[id].controller
                new == instances'[id].controller
            IN  /\ new # None /\ new # old
                /\ new \notin DOMAIN handles
                /\ handles'[new].destroys = 0
                /\ Cardinality(CallsAt(calls, "store_controller", new)) = 1
                /\ \A n \in DOMAIN calls : calls[n][1] = "store_controller" => calls[n][2] = new
                /\ \A n \in DOMAIN calls :
                      calls[n][1] \in DestroyCalls => (old # None /\ calls[n][2] = old)
                /\ old # None =>
                      /\ handles[old].destroys = 0
                      /\ DestroysOf(calls, old) = 1
                      /\ \A m \in CallsAt(calls, "controller_destroy", old),
                            n \in CallsAt(calls, "store_controller", new) : m < n]_vars
    /\ [](\A h \in DOMAIN handles :
            handles[h].kind = "Controller" => handles[h].destroys <= 1)

\* a connect replaced a controller the instance held
C18_Witness ==
    /\ lastCmd.cmd = "connect"
    /\ lastCmd.ok
    /\ \E n \in DOMAIN lastCmd.calls : lastCmd.calls[n][1] = "controller_destroy"
    /\ instances[lastCmd.id].controller # None

\* C19: when post_connection returns the invalid id, connect returns an error,
\* destroys the controller it created exactly once, and neither destroys nor
\* replaces the controller the instance holds.
C19_RejectedConnectKeepsStored ==
    [][(lastCmd'.cmd = "connect" /\ ~lastCmd'.ok) =>
        LET calls == lastCmd'.calls
            posted == {calls[n][2] : n \in {m \in DOMAIN calls :
                                             calls[m][1] = "controller_post_connection"}}
        IN  /\ Cardinality(posted) = 1
            /\ \A c \in posted :
                /\ c \notin DOMAIN handles
                /\ DestroysOf(calls, c) = 1
                /\ c \notin DOMAIN handles'
                /\ \A n \in DOMAIN calls : calls[n][2] = c
            /\ instances' = instances
            /\ handles' = handles]_vars

\* a connect was rejected on an instance that held a controller
C19_Witness ==
    /\ lastCmd.cmd = "connect"
    /\ ~lastCmd.ok
    /\ Known(lastCmd.id)
    /\ instances[lastCmd.id].controller # None
    /\ handles[instances[lastCmd.id].controller].destroys = 0

\* the post calls of one kind among a command's calls, in the order made
Posts(calls, name) == SelectSeq(calls, LAMBDA c : c[1] = name)

\* one post per item in input order, and ids the accepted answers in that order
OnePostPerItem(posts, items, ids) ==
    /\ Len(posts) = items
    /\ \A k \in 1..items : posts[k][3] = k
    /\ InvalidId \notin Range(ids)
    /\ ids = SelectSeq([k \in 1..items |-> posts[k][4]], LAMBDA a : a # InvalidId)

\* C20: load_resource over its paths and start_tasks over its entries make
\* exactly one post per item, in input order, whatever the earlier posts
\* answered; the ids they return are those of the accepted posts in input
\* order, without the invalid id; a rejected item neither ends the batch nor
\* makes the command fail.
C20_BatchSkipsRejectedItems ==
    [][/\ lastCmd'.cmd = "load_resource" =>
            /\ lastCmd'.ok
            /\ OnePostPerItem(Posts(lastCmd'.calls, "resource_post_bundle"),
                              lastCmd'.items, lastCmd'.ret)
       /\ lastCmd'.cmd = "start_tasks_post" =>
            /\ st'.pc = "record"
            /\ OnePostPerItem(Posts(lastCmd'.calls, "tasker_post_task"),
                              st.ntasks, st'.ids)
       /\ (lastCmd'.cmd = "start_tasks" /\ st.pc = "record") =>
            /\ lastCmd'.ok
            /\ lastCmd'.ret = st.ids
            /\ Known(st.id) => instances'[st.id].task_ids = st.ids]_vars

\* two paths were loaded, the first rejected and the second accepted
C20_Witness ==
    /\ lastCmd.cmd = "load_resource"
    /\ lastCmd.items = 2
    /\ Len(lastCmd.ret) = 1
    /\ LET posts == Posts(lastCmd.calls, "resource_post_bundle")
       IN  /\ Len(posts) = 2
           /\ posts[1][4] = InvalidId
           /\ posts[2][4] = lastCmd.ret[1]

\* the handles on which a command made a call of one name
CalledOn(calls, name) == {calls[n][2] : n \in {m \in DOMAIN calls : calls[m][1] = name}}

\* C21: a load_resource on an instance that holds a resource makes no
\* resource_create call and posts on the stored handle, which stays stored;
\* on an instance that holds none it makes exactly one resource_create call,
\* of a handle that did not exist, and stores it. So between two
\* destroy_resource calls the create happens once, on the first load. No
\* resource handle is held by two instances.
C21_ResourceCreatedOnce ==
    /\ [][lastCmd'.cmd = "load_resource" =>
            LET id == lastCmd'.id
                calls == lastCmd'.calls
                created == {n \in DOMAIN calls : calls[n][1] = "resource_create"}
            IN  IF instances[id].resource # None
                THEN /\ created = {}
                     /\ instances'[id].resource = instances[id].resource
                     /\ CalledOn(calls, "resource_post_bundle") \subseteq {instances[id].resource}
                     /\ handles' = handles
                ELSE /\ Cardinality(created) = 1
                     /\ CalledOn(calls, "resource_create") = {instances'[id].resource}
                     /\ instances'[id].resource # None
                     /\ instances'[id].resource \notin DOMAIN handles
                     /\ CalledOn(calls, "resource_post_bundle")
                            \subseteq {instances'[id].resource}]_vars
    /\ [](\A a \in DOMAIN instances, b \in DOMAIN instances :
            (a # b /\ instances[a].resource # None)
                => instances[a].resource # instances[b].resource)

\* a second load_resource was made on an instance while another instance held
\* a resource too
C21_Witness ==
    /\ lastCmd.cmd = "load_resource"
    /\ \A n \in DOMAIN lastCmd.calls : lastCmd.calls[n][1] = "resource_post_bundle"
    /\ lastCmd.calls # <<>>
    /\ \A i \in InstanceIds : i \in DOMAIN instances /\ instances[i].resource # None

\* the handles of one kind the engine has created and not been told to destroy
LiveOfKind(hs, kind) == {h \in DOMAIN hs : hs[h].kind = kind /\ hs[h].destroys = 0}

\* C22: a tasker comes into being only in a run_task or start_tasks call on an
\* instance that holds a resource and a controller and no tasker, and is stored
\* on that instance at once; a call on an instance that holds a tasker makes
\* no tasker_create call; so every live tasker is the one some instance holds.
\* A command posts a task only after tasker_inited answered true on the same
\* tasker, and a command that returns an error early creates nothing.
C22_TaskerCreatedWhenNoneHeld ==
    /\ [][LET id == lastCmd'.id
              calls == lastCmd'.calls
              born == {h \in DOMAIN handles' \ DOMAIN handles : handles'[h].kind = "Tasker"}
          IN  /\ CalledOn(calls, "tasker_create") = born
              /\ born # {} =>
                    /\ lastCmd'.cmd \in {"run_task", "start_tasks_begin"}
                    /\ Known(id)
                    /\ instances[id].tasker = None
                    /\ instances[id].resource # None
                    /\ instances[id].controller # None
                    /\ born = {instances'[id].tasker}
              /\ \A n \in DOMAIN calls :
                    calls[n][1] = "tasker_post_task" =>
                        \E m \in 1..(n - 1) : calls[m] = Inited(calls[n][2], TRUE)
              /\ lastCmd'.cmd = "failed" => (handles' = handles /\ instances' = instances)]_vars
    /\ [](\A h \in LiveOfKind(handles, "Tasker") :
            /\ \E i \in DOMAIN instances : instances[i].tasker = h
            /\ Cardinality({i \in DOMAIN instances : instances[i].tasker = h}) = 1)

\* run_task posted a task on the tasker the instance already held
C22_Witness ==
    /\ lastCmd.cmd = "run_task"
    /\ lastCmd.ok
    /\ CalledOn(lastCmd.calls, "tasker_create") = {}
    /\ CalledOn(lastCmd.calls, "tasker_post_task") = {instances[lastCmd.id].tasker}
    /\ Cardinality(LiveOfKind(handles, "Tasker")) = 1

\* C23: whenever run_task or start_tasks posts a task for an instance, the
\* tasker it posts on is the instance's tasker and is bound to the resource and
\* the controller the instance holds at that moment.
C23_PostsOnTaskerBoundToCurrentHandles ==
    [][\A t \in CalledOn(lastCmd'.calls, "tasker_post_task") :
          Known(lastCmd'.id) =>
              /\ t = instances[lastCmd'.id].tasker \/ t = instances'[lastCmd'.id].tasker
              /\ t \in DOMAIN handles'
              /\ handles'[t].bound = {instances[lastCmd'.id].resource,
                                      instances[lastCmd'.id].controller}]_vars

\* C24: the ids run_task or start_tasks returns are in the instance's recorded
\* list when the command returns, and an id in the recorded list stays in it
\* through every command on the instance other than a stop.
C24_ReturnedIdsStayRecorded ==
    [][/\ (lastCmd'.cmd \in {"run_task", "start_tasks"} /\ lastCmd'.ok
           /\ lastCmd'.id \in DOMAIN instances')
            => Range(lastCmd'.ret) \subseteq Range(instances'[lastCmd'.id].task_ids)
       /\ lastCmd'.cmd # "stop_task" =>
            \A i \in DOMAIN instances \cap DOMAIN instances' :
                Range(instances[i].task_ids) \subseteq Range(instances'[i].task_ids)]_vars

\* C25: when the agent connect of a start_tasks call returns and the instance
\* is there, a successful connect leaves the agent client and the child stored
\* on the instance; a failed one destroys the agent client exactly once, does
\* not store it, stores the child, ends the call with an error and posts no
\* task.
C25_AgentStoredOnlyWhenConnected ==
    [][(st.pc = "connecting" /\ st'.pc # "connecting" /\ Known(st.id)) =>
        LET a == st.agent_client
            calls == lastCmd'.calls
        IN  IF lastCmd'.cmd = "start_tasks_connect"
            THEN /\ instances'[st.id].agent_client = a
                 /\ instances'[st.id].agent_child = st.child
                 /\ DestroysOf(calls, a) = 0
                 /\ st'.pc = "post"
            ELSE /\ lastCmd'.cmd = "start_tasks"
                 /\ ~lastCmd'.ok
                 /\ lastCmd'.ret = <<>>
                 /\ handles[a].destroys = 0
                 /\ DestroysOf(calls, a) = 1
                 /\ instances'[st.id].agent_client = instances[st.id].agent_client
                 /\ instances'[st.id].agent_client # a
                 /\ instances'[st.id].agent_child = st.child
                 /\ CalledOn(calls, "tasker_post_task") = {}
                 /\ st'.pc = "idle"]_vars

\* an agent connect failed: the call ended with an error, the child is stored
\* and the agent client is not
C25_Witness ==
    /\ lastCmd.cmd = "start_tasks"
    /\ ~lastCmd.ok
    /\ CalledOn(lastCmd.calls, "agent_client_connect") # {}
    /\ Known(lastCmd.id)
    /\ instances[lastCmd.id].agent_child # None
    /\ instances[lastCmd.id].agent_client = None

\* C26: a stop on an instance that has a Tasker posts exactly one stop request,
\* on that Tasker, and makes no other native call (it waits for nothing); the
\* recorded task-id list is empty afterwards, and no handle is destroyed,
\* created or replaced.
C26_StopPostsOnceAndClears ==
    [][(lastCmd'.cmd = "stop_task" /\ Known(lastCmd'.id)
        /\ instances[lastCmd'.id].tasker # None) =>
        LET id == lastCmd'.id
        IN  /\ lastCmd'.ok
            /\ lastCmd'.calls = <<Call("tasker_post_stop", instances[id].tasker)>>
            /\ instances'[id].task_ids = <<>>
            /\ instances' = [instances EXCEPT ![id].task_ids = instances'[id].task_ids]
            /\ handles' = handles]_vars

\* a stop was made on an instance whose list recorded a task id
C26_Witness ==
    /\ lastCmd.cmd = "stop_task"
    /\ lastCmd.ok
    /\ CalledOn(lastCmd.calls, "tasker_post_stop") # {}
    /\ \E i \in DOMAIN instances :
           /\ i = lastCmd.id
           /\ instances[i].task_ids = <<>>
           /\ instances[i].tasker # None
    /\ \E h \in DOMAIN handles : handles[h].kind = "Tasker" /\ handles[h].destroys = 0

\* C27: stop_agent on an instance disconnects and then destroys its agent
\* client, then kills and then waits on its child process, making no other
\* call; both fields are empty afterwards, the other fields of the instance,
\* the other instances and the other live handles are unchanged; with both fields
\* already empty (a second stop_agent) it makes no call at all.
C27_StopAgentOrderAndFrame ==
    [][(lastCmd'.cmd = "stop_agent" /\ lastCmd'.ok) =>
        LET id == lastCmd'.id
            a == instances[id].agent_client
            c == instances[id].agent_child
            calls == lastCmd'.calls
            na == IF a = None THEN 0 ELSE 2
            nc == IF c = None THEN 0 ELSE 2
        IN  /\ Len(calls) = na + nc
            /\ a # None => /\ calls[1] = Call("agent_client_disconnect", a)
                           /\ calls[2] = Call("agent_client_destroy", a)
            /\ c # None => /\ calls[na + 1] = Call("child_kill", c)
                           /\ calls[na + 2] = Call("child_wait", c)
            /\ instances'[id].agent_client = None
            /\ instances'[id].agent_child = None
            /\ instances' = [instances EXCEPT ![id].agent_client = None,
                                              ![id].agent_child = None]
            /\ \A h \in DOMAIN handles \ {a, c} :
                   handles[h].destroys = 0 =>
                       h \in DOMAIN handles' /\ handles'[h] = handles[h]
            /\ DOMAIN handles' \subseteq DOMAIN handles]_vars

\* stop_agent ran on an instance that held an agent client and a child
C27_Witness ==
    /\ lastCmd.cmd = "stop_agent"
    /\ lastCmd.ok
    /\ Len(lastCmd.calls) = 4
    /\ instances[lastCmd.id].agent_client = None
    /\ instances[lastCmd.id].agent_child = None

\* the downloads that have obtained a session id
Started == {t \in Threads : dl[t].sid # 0}

\* C28: a download obtains its session id in the step that increments the
\* epoch by one, and the id is the epoch after that increment, greater than
\* every id obtained before; the ids of two downloads differ, and at most one
\* download's id equals the current epoch.
C28_SessionIdsUniqueAndIncreasing ==
    /\ [][/\ epoch' \in {epoch, epoch + 1}
          /\ \A t \in Threads :
                dl'[t].sid # dl[t].sid =>
                    /\ epoch' = epoch + 1
                    /\ dl'[t].sid = epoch'
                    /\ \A u \in Threads : dl[u].sid < dl'[t].sid
                    /\ \A u \in Threads \ {t} : dl'[u].sid = dl[u].sid
          /\ epoch' # epoch => \E t \in Threads : dl'[t].sid # dl[t].sid]_vars
    /\ [](/\ \A t \in Started : dl[t].sid <= epoch
          /\ \A t, u \in Started : t # u => dl[t].sid # dl[u].sid
          /\ Cardinality({t \in Started : dl[t].sid = epoch}) <= 1)

\* two downloads run at once under different ids, the older one superseded
C28_Witness ==
    /\ Started = Threads
    /\ \A t \in Threads : dl[t].pc # "idle"
    /\ \E t \in Threads : dl[t].sid = epoch
    /\ \E t \in Threads : dl[t].sid < epoch

\* a cancel call has set the flag while session s, the current one, was in
\* its stream loop on t: the flag is still set, and the session has passed a
\* check of the loop before (with the flag clear), so the flag was set after
\* the loop was entered
CancelledWhileStreaming(t, s) ==
    /\ cn = "remove"
    /\ cancelled
    /\ dl[t].downloaded > 0
    /\ dl[t].sid = s
    /\ epoch = s
    /\ dl[t].pc \in {"stream", "write"}

\* the download_file call of session s on t has returned
Returned(t, s) == dl[t].sid = s /\ dl[t].pc = "idle"

\* C29: once a cancel call has set the flag while the current session is in
\* its stream loop, then as long as no newer session has started the session
\* does not get past its last check (no final flush, no final progress event,
\* no backup of the destination, no rename), it returns only with the
\* cancellation error (or with the error of a failed write or of the stream),
\* and it does return unless a newer session starts.
C29_CancelEndsStreamingSession ==
    \A t \in Threads : \A s \in 1..MaxSessions :
        [](CancelledWhileStreaming(t, s) =>
            /\ [](epoch = s =>
                     /\ dl[t].sid = s
                     /\ dl[t].pc \notin {"flush", "backup", "rename"}
                     /\ Returned(t, s) => (\/ Cancelled(dl[t].result)
                                            \/ dl[t].result \in {"write_error", "stream_error"}))
            /\ <>(epoch # s \/ Returned(t, s)))

\* the native handles of the kinds the engine destroys by a destroy call
NativeKinds == {"Resource", "Controller", "Tasker", "AgentClient"}

\* C30: no call of a command is made on a Resource, Controller, Tasker or
\* AgentClient handle that a destroy call was made on before (in an earlier
\* command or earlier in the same one), and no such handle has two destroy
\* calls, whatever the commands and the steps of start_tasks interleave to.
C30_NoUseAfterDestroy ==
    /\ [][LET calls == lastCmd'.calls
          IN  lastCmd' # lastCmd =>
                \A n \in DOMAIN calls :
                    LET h == calls[n][2]
                    IN  /\ (h \in DOMAIN handles /\ handles[h].kind \in NativeKinds)
                              => handles[h].destroys = 0
                        /\ \A m \in 1..(n - 1) :
                              calls[m][2] = h => calls[m][1] \notin DestroyCalls]_vars
    /\ [](\A h \in DOMAIN handles :
              handles[h].kind \in NativeKinds => handles[h].destroys <= 1)

\* the finalization steps in the order the claim gives them
FinalizationOrder == <<"write", "sync", "progress", "backup", "rename">>

StepRank(step) == CHOOSE n \in DOMAIN FinalizationOrder : FinalizationOrder[n] = step

\* C31: the finalization steps of a session are made in the order write, sync,
\* final progress event, backup, rename, each at most once; the remaining
\* bytes are written exactly when there are some, the backup is made exactly
\* when a file is at the destination; a session that succeeded has synced,
\* emitted the final event and renamed, each once and in that order, and no
\* rename is made without the sync before it.
C31_FinalizationInOrder ==
    /\ [](\A t \in Threads :
            LET done == dl[t].steps
            IN  /\ \A n \in DOMAIN done : done[n] \in Range(FinalizationOrder)
                /\ \A n, m \in DOMAIN done : n < m => StepRank(done[n]) < StepRank(done[m])
                /\ "rename" \in Range(done) => {"sync", "progress"} \subseteq Range(done)
                /\ "progress" \in Range(done) => "sync" \in Range(done)
                /\ dl[t].result = "ok" <=> "rename" \in Range(done))
    /\ [][\A t \in Threads :
            /\ (dl[t].pc = "flush" /\ dl'[t].pc = "backup") =>
                   ("write" \in Range(dl'[t].steps) <=> dl[t].buffer # <<>>)
            /\ (dl[t].pc = "backup" /\ dl'[t].pc = "rename") =>
                   ("backup" \in Range(dl'[t].steps) <=> "dest" \in DOMAIN dir)]_vars

\* a session succeeded after all five steps
C31_Witness ==
    \E t \in Threads : dl[t].result = "ok" /\ dl[t].steps = FinalizationOrder

\* the numbers of the backup names that are free in a listing
FreeNumbers(names) == {i \in 1..LastBackup : BakName(i) \notin names}

HeaderName(h) ==
    IF ~h.present THEN NoName
    ELSE IF h.star.some /\ PercentDecode(h.star.value) # <<>>
    THEN SomeName(PercentDecode(h.star.value))
    ELSE IF h.plain.some /\ h.plain.value # <<>> THEN h.plain
    ELSE NoName

\* a candidate after the sanitizer
Passed(candidate) == IF candidate.some THEN SanitizeFilename(candidate.value) ELSE NoName

\* the decoded last segment of the final URL's path
UrlName(path) ==
    IF UrlLastSegment(path) = <<>> THEN NoName
    ELSE SomeName(PercentDecode(UrlLastSegment(path)))

C34_PoisonReportedAsError ==
    outcome.hit # {} => outcome.result = "error"

\* the thread is at the await of the agent connect
InHandshake(t) == thr[t].steps # <<>> /\ Head(thr[t].steps) = Handshake

\* the mutex the thread is about to lock, when its next step is a lock
Wanted(t) ==
    IF thr[t].steps # <<>> /\ Head(thr[t].steps)[1] = "lock"
    THEN {Head(thr[t].steps)[2]} ELSE {}

\* C35: a start_tasks call that waits for the agent connect holds no mutex,
\* so no other thread waits for a mutex it holds.
C35_NoLockHeldInHandshake ==
    \A t \in CmdThreads :
        InHandshake(t) =>
            /\ \A l \in Mutexes : holder[l] # t
            /\ \A u \in CmdThreads \ {t} : \A l \in Wanted(u) : holder[l] # t

\* during a handshake the other thread runs a command inside its lock scopes
C35_Witness ==
    \E t \in CmdThreads, u \in CmdThreads :
        /\ InHandshake(t)
        /\ holder["library"] = u
        /\ holder["instances"] = u

\* the thread waits for a mutex that another thread holds
WaitsFor(t, u) == \E l \in Wanted(t) : holder[l] = u

\* C36: no threads wait for each other's mutexes in a cycle, and no thread
\* waits for a mutex it holds itself.
C36_NoDeadlock ==
    \A t, u \in CmdThreads : ~(WaitsFor(t, u) /\ WaitsFor(u, t))

\* C37: every handle given to insert and not yet returned by a release is the
\* handle of some entry of the pool, so that a later release can return it; no
\* insert, get or release drops it from the pool in any other way.
C37_InsertedHandleStaysPooled ==
    \A c \in live : \E k \in DOMAIN controllers : controllers[k].controller = c

\* the steps of maa_connect_controller and of maa_start_tasks, by the name they
\* record
ConnectOrStartSteps ==
    {"connect", "connect_unknown", "start_tasks", "start_tasks_begin",
     "start_tasks_agent", "start_tasks_spawn", "start_tasks_connect",
     "start_tasks_post"}

\* C38: no step of connect or start_tasks leaves a live native handle that
\* neither an instance nor the call still in flight refers to: every handle
\* the command created is stored on an instance or destroyed when it returns.
C38_NoHandleLeftUnreferenced ==
    [][lastCmd'.cmd \in ConnectOrStartSteps => Leaked' \subseteq Leaked]_vars

\* the session of thread u is the current one and has its staging file in place
Staging(u) ==
    /\ dl[u].sid = epoch
    /\ dl[u].pc \in {"stream", "write", "flush", "backup", "rename"}

\* C39: the abort of a superseded session leaves the staging file of the
\* current session of another call where it is, so that the current session
\* can still rename it onto the destination.
C39_AbortLeavesCurrentStaging ==
    [][\A t \in Threads :
          (/\ dl[t].pc # "idle"
           /\ dl'[t].pc = "idle"
           /\ Cancelled(dl'[t].result)
           /\ dl[t].sid # epoch)
          => \A u \in Threads \ {t} :
                Staging(u) => /\ "temp" \in DOMAIN dir'
                              /\ dir'["temp"] = dir["temp"]]_vars

\* the live Taskers and AgentClients stored on an instance and bound to the
\* resource r
BoundTo(r) ==
    {h \in DOMAIN handles :
        /\ handles[h].kind \in {"Tasker", "AgentClient"}
        /\ handles[h].destroys = 0
        /\ r \in handles[h].bound
        /\ \E i \in DOMAIN instances : h \in {instances[i].tasker, instances[i].agent_client}}

\* C40: in every command that destroys a Resource, each live Tasker and
\* AgentClient bound to it has its destroy call earlier in the same command,
\* and no instance holds one of them when the command has returned.
C40_ResourceDestroyedAfterItsUsers ==
    [][LET calls == lastCmd'.calls
       IN  lastCmd' # lastCmd =>
             \A n \in DOMAIN calls :
                calls[n][1] = "resource_destroy" =>
                   \A h \in BoundTo(calls[n][2]) :
                      /\ \E m \in 1..(n - 1) :
                            calls[m][1] \in DestroyCalls /\ calls[m][2] = h
                      /\ \A i \in DOMAIN instances' :
                            h \notin {instances'[i].tasker,
                                      instances'[i].agent_client}]_vars

====
